---- MODULE Spec2Model ----
(***************************************************************************)
(* State-machine model of jdwp.ts: the JDWP dispatcher (JDWPClient), the   *)
(* stream transport (WebUSBJDWPTransport / NodeTcpJDWPTransport) and the   *)
(* session facade (DebugManager).                                          *)
(*                                                                         *)
(* One action is one turn of the JavaScript event loop: a macrotask (a     *)
(* transport read, a timer, an I/O completion, a call made by the user)    *)
(* or one queued promise continuation.  Macrotasks run only when the       *)
(* continuation queue `ready` is empty, as in the host.                    *)
(***************************************************************************)
EXTENDS Integers, Sequences, FiniteSets, TLC

\* ---------------------------------------------------------------- bounds
\* Number of facade calls the user makes on the session after the attach.
MaxOps == 2
\* Number of async operations that may be in flight at the same time.
MaxTasks == 2
\* Largest number of events in one Composite packet.
MaxEvents == 2
\* Number of timers the host has armed before the client is created.  Hosts
\* whose setTimeout returns integers number their timers from 1, so the first
\* timer of the client has the handle TimersArmedBefore + 1.
TimersArmedBefore == 4998
\* packets in the inbound byte stream, bytes in one read, packets written
MaxPackets == 2
MaxChunk == 13
MaxWrites == 1

\* ------------------------------------------------------ program constants
DefaultTimeoutMs == 5000
ReplyFlag == 128
CompositeCommandSet == 64
CompositeCommand == 100
BREAKPOINT == 2
THREAD_START == 6
THREAD_DEATH == 7
VM_DEATH == 99
CS_VirtualMachine == 1
CS_ReferenceType == 2
CS_ThreadReference == 11
CS_EventRequest == 15

\* ------------------------------------------------------------ input sets
Pids == {1}
ThePid == CHOOSE p \in Pids : TRUE
ThreadIds == {1}
RequestIds == {1}
\* the method name asked for by setBreakpoint ("m") and the class ("C")
MethodName == <<109>>

\* Reply payloads the VM may send (bytes after the 11-byte header).
P_Empty == <<>>
P_Short == <<0>>
P_Err == <<0, 13>>
P_ErrHigh == <<1, 0>>
P_Id1 == <<0, 0, 0, 1>>
P_None == <<0, 0, 0, 0>>
P_Classes == <<0, 0, 0, 1, 1, 0, 0, 0, 0, 0, 0, 0, 3>>
P_Methods == <<0, 0, 0, 1, 0, 0, 0, 0, 0, 0, 0, 7, 0, 0, 0, 1, 109, 0, 0, 0, 0, 0, 0, 0, 0>>
P_Threads == <<0, 0, 0, 1, 0, 0, 0, 0, 0, 0, 0, 1>>

VARIABLES
    \* JDWPClient
    packetIdCounter, responseHandlers, eventCallbacks,
    \* promises returned by sendCommand that are not settled yet, and the
    \* settlement made last
    unsettled, lastSettled,
    \* host timers armed by setTimeout, in firing order, and the next handle
    timers, nextTimerId,
    \* transport
    transportMade, connected, reader, writer, socket, packetCallback, streamErrored,
    \* the VM has sent its VM_DEATH event: it sends nothing after it
    vmDead,
    \* DebugManager and the DebugSession of ThePid
    sessions, breakpoints, threads, suspendedThreads, currentThread,
    \* async functions in flight and the queue of continuations
    tasks, ready,
    opsMade,
    \* observations of the turn of the event loop just taken: the command
    \* written, the reply read, the dispatch log of the event packet read, the
    \* timer fired, whether JDWPClient.disconnect ran, whether the read loop saw
    \* the end of the stream, the facade call that completed
    lastSent, lastReply, lastDispatch, lastTimer, lastDisconnect, lastEof, lastResult,
    \* the events of the Composite packet handled in this turn
    lastPacket,
    \* the transport at the level of bytes: which transport class it is and
    \* how far its connect() has come; the bytes the peer sends in all, those
    \* not read yet, the reassembly buffer, the packets handed to the packet
    \* callback, what was written to the socket, and whether the framing loop
    \* has reported an invalid packet length
    transportKind, connectPc, wire, inbound, pendingData, delivered, written,
    invalidLength,
    \* the byte codecs taken alone: the call made, its input and its result
    codec,
    \* concurrent calls of startDebugging for ThePid taken alone: how far each
    \* call has come, the calls whose transport was opened, and the calls
    \* whose session was stored in the registry, in the order of the stores
    attach

tvars == <<transportKind, connectPc, wire, inbound, pendingData, delivered, written,
           invalidLength>>

vars == <<packetIdCounter, responseHandlers, eventCallbacks, unsettled, lastSettled,
          timers, nextTimerId, transportMade, connected, reader, writer, socket,
          packetCallback, streamErrored, vmDead, sessions, breakpoints, threads,
          suspendedThreads, currentThread, tasks, ready, opsMade, lastSent,
          lastReply, lastDispatch, lastTimer, lastDisconnect, lastEof, lastResult,
          lastPacket, tvars, codec, attach>>

\* The whole state as one record; handlers are functions from record to record.
Cur ==
    [packetIdCounter |-> packetIdCounter, responseHandlers |-> responseHandlers,
     eventCallbacks |-> eventCallbacks, unsettled |-> unsettled,
     lastSettled |-> lastSettled, timers |-> timers, nextTimerId |-> nextTimerId,
     transportMade |-> transportMade, connected |-> connected, reader |-> reader,
     writer |-> writer, socket |-> socket, packetCallback |-> packetCallback,
     streamErrored |-> streamErrored, vmDead |-> vmDead, sessions |-> sessions,
     breakpoints |-> breakpoints, threads |-> threads,
     suspendedThreads |-> suspendedThreads, currentThread |-> currentThread,
     tasks |-> tasks, ready |-> ready, opsMade |-> opsMade, lastSent |-> lastSent,
     lastReply |-> lastReply, lastDispatch |-> lastDispatch, lastTimer |-> lastTimer,
     lastDisconnect |-> lastDisconnect, lastEof |-> lastEof,
     lastResult |-> lastResult, lastPacket |-> lastPacket]

Becomes(s) ==
    /\ packetIdCounter' = s.packetIdCounter
    /\ responseHandlers' = s.responseHandlers
    /\ eventCallbacks' = s.eventCallbacks
    /\ unsettled' = s.unsettled
    /\ lastSettled' = s.lastSettled
    /\ timers' = s.timers
    /\ nextTimerId' = s.nextTimerId
    /\ transportMade' = s.transportMade
    /\ connected' = s.connected
    /\ reader' = s.reader
    /\ writer' = s.writer
    /\ socket' = s.socket
    /\ packetCallback' = s.packetCallback
    /\ streamErrored' = s.streamErrored
    /\ vmDead' = s.vmDead
    /\ sessions' = s.sessions
    /\ breakpoints' = s.breakpoints
    /\ threads' = s.threads
    /\ suspendedThreads' = s.suspendedThreads
    /\ currentThread' = s.currentThread
    /\ tasks' = s.tasks
    /\ ready' = s.ready
    /\ opsMade' = s.opsMade
    /\ lastSent' = s.lastSent
    /\ lastReply' = s.lastReply
    /\ lastDispatch' = s.lastDispatch
    /\ lastTimer' = s.lastTimer
    /\ lastDisconnect' = s.lastDisconnect
    /\ lastEof' = s.lastEof
    /\ lastResult' = s.lastResult
    /\ lastPacket' = s.lastPacket
    /\ UNCHANGED tvars
    /\ UNCHANGED codec
    /\ UNCHANGED attach

\* ------------------------------------------------------------ byte helpers
\* data[offset] of a Uint8Array used in a bitwise expression: a read past the
\* end yields undefined, which the operators << and | turn into 0.
ByteAt(data, offset) ==
    IF offset + 1 \in 1..Len(data) THEN data[offset + 1] ELSE 0

\* A readUint16 that drops the high byte.
readUint16LowByte(data, offset) ==
    ByteAt(data, offset + 1)

readUint16(data, offset) ==
    ByteAt(data, offset) * 256 + ByteAt(data, offset + 1)

\* (b0 << 24) | (b1 << 16) | (b2 << 8) | b3 is a signed 32-bit value: a first
\* byte of 0x80 or more makes it negative.
readUint32(data, offset) ==
    LET b0 == ByteAt(data, offset)
    IN  (IF b0 >= 128 THEN b0 - 256 ELSE b0) * 16777216
        + ByteAt(data, offset + 1) * 65536
        + ByteAt(data, offset + 2) * 256 + ByteAt(data, offset + 3)

\* high * 0x100000000 + low.  The number itself when the high word is 0,
\* the pair of words otherwise.
readUint64(data, offset) ==
    LET high == readUint32(data, offset)
        low == readUint32(data, offset + 4)
    IN  IF high = 0 THEN low ELSE <<high, low>>

\* data.slice(from, to)
Slice(data, from, to) ==
    LET lo == IF from > Len(data) THEN Len(data) ELSE from
        hi == IF to > Len(data) THEN Len(data) ELSE to
    IN  IF hi <= lo THEN <<>> ELSE SubSeq(data, lo + 1, hi)


\* --------------------------------------------------------- small utilities
EmptyMap == [k \in {} |-> 0]
MapRemove(m, k) == [x \in (DOMAIN m) \ {k} |-> m[x]]
MapPut(m, k, v) == [x \in (DOMAIN m) \cup {k} |-> IF x = k THEN v ELSE m[x]]

\* A Map or Set iterated in insertion order: a sequence without duplicates.
SeqHas(q, k) == \E i \in 1..Len(q) : q[i] = k
SeqAdd(q, k) == IF SeqHas(q, k) THEN q ELSE Append(q, k)
SeqDelete(q, k) == SelectSeq(q, LAMBDA x : x # k)
\* first element of q that the iterator has not produced yet (-1: exhausted)
NextUnseen(q, seen) ==
    LET idx == {i \in 1..Len(q) : q[i] \notin seen}
    IN  IF idx = {} THEN -1
        ELSE q[CHOOSE i \in idx : \A j \in idx : i <= j]

\* ------------------------------------------------------ promises and tasks
NoRes == [ok |-> TRUE, err |-> "", code |-> 0, data |-> <<>>]
Resolved(data) == [ok |-> TRUE, err |-> "", code |-> 0, data |-> data]
Rejected(err, code) == [ok |-> FALSE, err |-> err, code |-> code, data |-> <<>>]

NoTask == [op |-> "none", pc |-> "", by |-> "", wait |-> 0, arg |-> 0,
           data |-> <<>>, seen |-> {}, seenT |-> {}, res |-> NoRes,
           given |-> 0, sent |-> <<>>]
NewTask(op, by) == [NoTask EXCEPT !.op = op, !.by = by]

Slots == 1..MaxTasks
FreeSlots(s) == {i \in Slots : s.tasks[i].op = "none"}
FreeSlot(s) == CHOOSE i \in FreeSlots(s) : \A j \in FreeSlots(s) : i <= j

TaskItem(slot) == [kind |-> "task", slot |-> slot, id |-> 0, handle |-> 0]
SendFailItem(id, handle) == [kind |-> "sendFail", slot |-> 0, id |-> id, handle |-> handle]

\* resolve()/reject() of the promise created by sendCommand for packet id: a
\* promise is settled once, later calls do nothing; the awaiting async
\* function is queued to continue.
Settle(s, id, res) ==
    IF id \notin s.unsettled THEN s
    ELSE LET waiting == {i \in Slots : s.tasks[i].op # "none" /\ s.tasks[i].wait = id}
             w == CHOOSE i \in waiting : TRUE
             s1 == [s EXCEPT !.unsettled = @ \ {id},
                             !.lastSettled = [id |-> id, ok |-> res.ok, err |-> res.err,
                                              code |-> res.code, data |-> res.data]]
         IN  IF waiting = {} THEN s1
             ELSE [s1 EXCEPT !.tasks[w].res = res, !.tasks[w].wait = 0,
                             !.ready = Append(@, TaskItem(w))]

\* An await whose promise is already settled: the function continues from the
\* continuation queue.
ResumeLater(s, slot, t, res) ==
    [s EXCEPT !.tasks[slot] = [t EXCEPT !.wait = 0, !.res = res],
              !.ready = Append(@, TaskItem(slot))]

\* The async function of `slot` returned or threw.
Finish(s, slot, ok) ==
    [s EXCEPT !.lastResult = [op |-> s.tasks[slot].op, by |-> s.tasks[slot].by, ok |-> ok],
              !.tasks[slot] = NoTask]

\* ------------------------------------------------------------ host timers
\* clearTimeout(h): disarms the timer whose handle is h, if there is one.
clearTimeout(s, h) ==
    [s EXCEPT !.timers = SelectSeq(@, LAMBDA t : t.handle # h)]

\* ------------------------------------------------------------ sendCommand
sendPacketFails(s) == ~s.writer \/ ~s.connected \/ s.streamErrored

\* A sendCommand without the isConnected() check.
sendCommandUnchecked(s, slot, t, commandSet, command, arg) ==
    LET packetId == s.packetIdCounter
        handle == s.nextTimerId
    IN  [s EXCEPT
           !.packetIdCounter = packetId + 1,
           !.nextTimerId = handle + 1,
           !.timers = Append(@, [handle |-> handle, id |-> packetId]),
           !.responseHandlers = MapPut(@, packetId, DefaultTimeoutMs),
           !.unsettled = @ \cup {packetId},
           !.tasks[slot] = [t EXCEPT !.wait = packetId, !.res = NoRes],
           !.lastSent = [id |-> packetId, commandSet |-> commandSet,
                         command |-> command, arg |-> arg,
                         written |-> ~sendPacketFails(s)],
           !.ready = IF sendPacketFails(s)
                     THEN Append(@, SendFailItem(packetId, handle)) ELSE @]

\* A sendCommand that does not advance the packet id counter.
sendCommandSameId(s, slot, t, commandSet, command, arg) ==
    IF ~s.connected
    THEN ResumeLater(s, slot, t, Rejected("notConnected", 0))
    ELSE LET packetId == s.packetIdCounter
             handle == s.nextTimerId
         IN  [s EXCEPT
                !.nextTimerId = handle + 1,
                !.timers = Append(@, [handle |-> handle, id |-> packetId]),
                !.responseHandlers = MapPut(@, packetId, DefaultTimeoutMs),
                !.unsettled = @ \cup {packetId},
                !.tasks[slot] = [t EXCEPT !.wait = packetId, !.res = NoRes],
                !.lastSent = [id |-> packetId, commandSet |-> commandSet,
                              command |-> command, arg |-> arg,
                              written |-> ~sendPacketFails(s)],
                !.ready = IF sendPacketFails(s)
                          THEN Append(@, SendFailItem(packetId, handle)) ELSE @]

\* `await this.sendCommand(commandSet, command, data)` made by the async
\* function of `slot`, whose record while it waits is t.
sendCommand(s, slot, t, commandSet, command, arg) ==
    IF ~s.connected
    THEN ResumeLater(s, slot, t, Rejected("notConnected", 0))
    ELSE LET packetId == s.packetIdCounter
             handle == s.nextTimerId
         IN  [s EXCEPT
                !.packetIdCounter = packetId + 1,
                !.nextTimerId = handle + 1,
                !.timers = Append(@, [handle |-> handle, id |-> packetId]),
                !.responseHandlers = MapPut(@, packetId, DefaultTimeoutMs),
                !.unsettled = @ \cup {packetId},
                !.tasks[slot] = [t EXCEPT !.wait = packetId, !.res = NoRes],
                !.lastSent = [id |-> packetId, commandSet |-> commandSet,
                              command |-> command, arg |-> arg,
                              written |-> ~sendPacketFails(s)],
                !.ready = IF sendPacketFails(s)
                          THEN Append(@, SendFailItem(packetId, handle)) ELSE @]

\* the .catch() callback of transport.sendPacket(packet) in sendCommand
sendPacketCatch(s, id, handle) ==
    LET s1 == clearTimeout(s, handle)
        s2 == [s1 EXCEPT !.responseHandlers = MapRemove(@, id)]
    IN  Settle(s2, id, Rejected("send", 0))

\* the setTimeout callback of sendCommand for packet id
timeoutCallback(s, id) ==
    Settle([s EXCEPT !.responseHandlers = MapRemove(@, id)], id, Rejected("timeout", 0))

\* ---------------------------------------------------- transport.disconnect
\* The part of transport.disconnect() after `this.connected = false` and
\* after each await: the next non-null stream is closed and awaited.
Transport_disconnectNext(s, slot, t) ==
    IF s.reader THEN [s EXCEPT !.tasks[slot] = [t EXCEPT !.pc = "tdCancel", !.wait = 0]]
    ELSE IF s.writer THEN [s EXCEPT !.tasks[slot] = [t EXCEPT !.pc = "tdClose", !.wait = 0]]
    ELSE IF s.socket THEN [s EXCEPT !.tasks[slot] = [t EXCEPT !.pc = "tdSock", !.wait = 0]]
    ELSE ResumeLater([s EXCEPT !.packetCallback = FALSE], slot,
                     [t EXCEPT !.pc = "disconnected"], NoRes)

Transport_disconnect(s, slot, t) ==
    Transport_disconnectNext([s EXCEPT !.connected = FALSE], slot, t)

\* JDWPClient.disconnect
RECURSIVE clearAllTimeouts(_, _)
clearAllTimeouts(s, ids) ==
    IF ids = {} THEN s
    ELSE LET id == CHOOSE x \in ids : TRUE
         IN  clearAllTimeouts(clearTimeout(s, s.responseHandlers[id]), ids \ {id})

JDWPClient_disconnect(s, slot, t) ==
    LET s1 == clearAllTimeouts(s, DOMAIN s.responseHandlers)
        s2 == [s1 EXCEPT !.responseHandlers = EmptyMap, !.eventCallbacks = EmptyMap,
                         !.lastDisconnect = TRUE]
    IN  Transport_disconnect(s2, slot, t)


\* ------------------------------------------------------------ DebugManager
\* session.breakpoints: Map<requestId, JDWPBreakpoint>, in insertion order
BpKeys(b) == [i \in 1..Len(b) |-> b[i].requestId]
BpHas(b, r) == \E i \in 1..Len(b) : b[i].requestId = r
BpSet(b, r, rec) ==
    IF BpHas(b, r) THEN [i \in 1..Len(b) |-> IF b[i].requestId = r THEN rec ELSE b[i]]
    ELSE Append(b, rec)
BpDelete(b, r) == SelectSeq(b, LAMBDA x : x.requestId # r)

\* A stopDebugging that disconnects without clearing or resuming anything.
stopNextNoLoops(s, slot, t) ==
    JDWPClient_disconnect(s, slot, [t EXCEPT !.pc = "stopDisconnect"])

\* stopDebugging: the two for-loops and the disconnect that follows them.
\* The loops iterate the live Map and Set; every await returns here.
stopNext(s, slot, t) ==
    LET r == NextUnseen(BpKeys(s.breakpoints), t.seen)
        th == NextUnseen(s.suspendedThreads, t.seenT)
    IN  IF r # -1
        THEN sendCommand(s, slot, [t EXCEPT !.pc = "stopClear", !.seen = @ \cup {r}],
                         CS_EventRequest, 2, r)
        ELSE IF th # -1
        THEN sendCommand(s, slot, [t EXCEPT !.pc = "stopResume", !.seenT = @ \cup {th}],
                         CS_ThreadReference, 1, th)
        ELSE JDWPClient_disconnect(s, slot, [t EXCEPT !.pc = "stopDisconnect"])

stopDebugging(s, by) ==
    IF ThePid \notin s.sessions
    THEN [s EXCEPT !.lastResult = [op |-> "stop", by |-> by, ok |-> FALSE]]
    ELSE stopNext(s, FreeSlot(s), NewTask("stop", by))

handleBreakpointEvent(s, r, ev) ==
    IF ev.eventKind # BREAKPOINT THEN s
    ELSE [s EXCEPT
            !.breakpoints = [i \in 1..Len(@) |->
                                IF @[i].requestId = r
                                THEN [@[i] EXCEPT !.hitCount = @ + 1] ELSE @[i]],
            !.currentThread = ev.threadId,
            !.suspendedThreads = SeqAdd(@, ev.threadId)]

handleVMEvent(s, ev) ==
    CASE ev.eventKind = THREAD_DEATH ->
            [s EXCEPT !.threads = @ \ {ev.threadId},
                      !.suspendedThreads = SeqDelete(@, ev.threadId)]
      [] ev.eventKind = VM_DEATH -> stopDebugging(s, "vm")
      [] OTHER -> s

\* --------------------------------------------------------- event dispatch
\* The callbacks that the program registers: "vm" is the closure over
\* handleVMEvent made by setupVMEvents, "user" a callback of the caller that
\* returns, "throws" a callback of the caller that throws.
invokeCallback(s, cb, ev) ==
    IF cb = "vm" THEN handleVMEvent(s, ev) ELSE s

\* One iteration of the loop of handleEventPacket.  The log entry holds the
\* event, the key whose callback was invoked (-1: none) and the keys that
\* were registered when the event was dispatched.
deliverEvent(s, ev) ==
    LET keys == DOMAIN s.eventCallbacks
    IN  IF ev.requestId \in keys
        THEN invokeCallback([s EXCEPT !.lastDispatch =
                                Append(@, [ev |-> ev, key |-> ev.requestId, keys |-> keys])],
                            s.eventCallbacks[ev.requestId], ev)
        ELSE [s EXCEPT !.lastDispatch = Append(@, [ev |-> ev, key |-> -1, keys |-> keys])]

\* the callback registered for the event throws
callbackThrows(s, ev) ==
    /\ ev.requestId \in DOMAIN s.eventCallbacks
    /\ s.eventCallbacks[ev.requestId] = "throws"

\* A loop that takes the events of the packet from the last to the first.
RECURSIVE deliverEventsLastFirst(_, _)
deliverEventsLastFirst(s, evs) ==
    IF evs = <<>> THEN s
    ELSE LET ev == evs[Len(evs)]
             s1 == deliverEvent(s, ev)
         IN  IF callbackThrows(s, ev) THEN s1
             ELSE deliverEventsLastFirst(s1, SubSeq(evs, 1, Len(evs) - 1))

\* The for-loop of handleEventPacket: an exception thrown by a callback
\* leaves the loop (it is caught and logged by handlePacket).
RECURSIVE deliverEvents(_, _)
deliverEvents(s, evs) ==
    IF evs = <<>> THEN s
    ELSE LET s1 == deliverEvent(s, Head(evs))
         IN  IF callbackThrows(s, Head(evs)) THEN s1
             ELSE deliverEvents(s1, Tail(evs))

handleEventPacket(s, packet) ==
    IF packet.commandSet = CompositeCommandSet /\ packet.command = CompositeCommand
    THEN deliverEvents([s EXCEPT !.lastPacket = packet.events], packet.events)
    ELSE s

\* A handleReply that gives a reply without a pending entry to the oldest
\* pending command.
handleReplyAnyPending(s0, packet) ==
    LET pending == DOMAIN s0.responseHandlers
        id == IF packet.id \in pending \/ pending = {} THEN packet.id
              ELSE CHOOSE x \in pending : \A y \in pending : x <= y
        s == [s0 EXCEPT !.lastReply = [id |-> packet.id, data |-> packet.data,
                                       matched |-> packet.id \in pending]]
    IN
    IF id \in pending
    THEN LET s1 == clearTimeout(s, s.responseHandlers[id])
             s2 == [s1 EXCEPT !.responseHandlers = MapRemove(@, id)]
             errorCode == readUint16(packet.data, 0)
         IN  IF Len(packet.data) >= 2 /\ errorCode # 0
             THEN Settle(s2, id, Rejected("JDWPError", errorCode))
             ELSE Settle(s2, id, Resolved(packet.data))
    ELSE s

handleReply(s0, packet) ==
    LET s == [s0 EXCEPT !.lastReply = [id |-> packet.id, data |-> packet.data,
                                       matched |-> packet.id \in DOMAIN s0.responseHandlers]]
    IN
    IF packet.id \in DOMAIN s.responseHandlers
    THEN LET s1 == clearTimeout(s, s.responseHandlers[packet.id])
             s2 == [s1 EXCEPT !.responseHandlers = MapRemove(@, packet.id)]
             errorCode == readUint16(packet.data, 0)
         IN  IF Len(packet.data) >= 2 /\ errorCode # 0
             THEN Settle(s2, packet.id, Rejected("JDWPError", errorCode))
             ELSE Settle(s2, packet.id, Resolved(packet.data))
    ELSE s

handlePacket(s, packet) ==
    IF packet.flags = ReplyFlag THEN handleReply(s, packet)
    ELSE handleEventPacket(s, packet)



\* ------------------------------------------------------------------ exec
TAG_OBJECT == 76
TAG_INT == 73
CS_ClassType == 3
CS_ObjectReference == 9
\* the class signatures exec asks for, as recorded with a ClassesBySignature
\* command: 'Ljava/lang/Runtime;' and 'Ljava/lang/Process;'
Sig_Runtime == 1
Sig_Process == 2

\* A command of exec: sendCommand, with the command noted in the list of the
\* commands this call has issued.
execSend(s, slot, t, pc, commandSet, command, arg) ==
    sendCommand(s, slot,
                [t EXCEPT !.pc = pc,
                          !.sent = IF s.connected
                                   THEN Append(@, <<commandSet, command, arg>>)
                                   ELSE @],
                commandSet, command, arg)

\* JDWPClient.exec(threadId, cmd) up to its first await: getRuntime asks for
\* the class java.lang.Runtime
exec(s, slot, t, threadId) ==
    execSend(s, slot, [t EXCEPT !.arg = threadId], "xCbsRuntime",
             CS_VirtualMachine, 2, Sig_Runtime)

\* executeJDWP after `await this.getThreads(pid)`: the first thread is taken
executeJDWPThreads(s, slot, t) ==
    IF readUint32(t.data, 0) <= 0 THEN Finish(s, slot, FALSE)
    ELSE exec(s, slot, t, readUint64(t.data, 4))

\* --------------------------------------------------- startDebugging steps
\* getThreads: the loop over the thread ids of the AllThreads reply; t.arg is
\* the loop index, t.data the reply payload.
getThreadsLoop(s, slot, t) ==
    IF t.arg < readUint32(t.data, 0)
    THEN sendCommand(s, slot, [t EXCEPT !.pc = "tName"], CS_ThreadReference, 1,
                     readUint64(t.data, 4 + t.arg * 8))
    ELSE IF t.op = "executeJDWP" THEN executeJDWPThreads(s, slot, t)
    ELSE Finish(s, slot, TRUE)

\* getThreadInfo returned (its catch returns a default record on failure)
getThreadInfoDone(s, slot, t) ==
    getThreadsLoop([s EXCEPT !.threads = @ \cup {readUint64(t.data, 4 + t.arg * 8)}],
                   slot, [t EXCEPT !.arg = @ + 1])

\* initializeSession after setupVMEvents: getThreads inside try/catch
initializeSessionGetThreads(s, slot, t) ==
    IF ThePid \notin s.sessions THEN Finish(s, slot, TRUE)
    ELSE sendCommand(s, slot, [t EXCEPT !.pc = "allThreads"], CS_VirtualMachine, 4, 0)

\* startDebugging after `await client.connect()`
startDebuggingConnected(s, slot, t) ==
    LET s1 == [s EXCEPT !.sessions = @ \cup {ThePid}, !.breakpoints = <<>>,
                        !.threads = {}, !.suspendedThreads = <<>>,
                        !.currentThread = 0]
    IN  sendCommand(s1, slot, [t EXCEPT !.pc = "threadStart"], CS_EventRequest, 1,
                    THREAD_START)

\* ----------------------------------------------------- setBreakpoint steps
RECURSIVE parseMethods(_, _, _)
parseMethods(data, offset, n) ==
    IF n <= 0 THEN <<>>
    ELSE LET methodId == readUint64(data, offset)
             nameLength == readUint32(data, offset + 8)
             name == Slice(data, offset + 12, offset + 12 + nameLength)
             sigOffset == offset + 12 + nameLength
             sigLength == readUint32(data, sigOffset)
         IN  <<[id |-> methodId, name |-> name]>>
             \o parseMethods(data, sigOffset + 4 + sigLength + 4, n - 1)

getMethods(data) == parseMethods(data, 4, readUint32(data, 0))

\* methods.find(m => m.name === methodName): index of the first match, 0 if none
findMethod(methods, name) ==
    LET idx == {i \in 1..Len(methods) : methods[i].name = name}
    IN  IF idx = {} THEN 0 ELSE CHOOSE i \in idx : \A j \in idx : i <= j

\* setupVMEvents after `await sendCommand(EventRequest, Set, ...)`: the id-0
\* callback is registered when the request succeeded; the catch only logs.
setupVMEventsDone(s, slot, t) ==
    initializeSessionGetThreads(
        IF t.res.ok THEN [s EXCEPT !.eventCallbacks = MapPut(@, 0, "vm")] ELSE s,
        slot, t)

\* setBreakpoint after `await client.setBreakpointAtMethodEntry(...)`
setBreakpointDone(s, slot, t) ==
    IF ~t.res.ok THEN Finish(s, slot, FALSE)
    ELSE LET requestId == readUint32(t.res.data, 0)
         IN  Finish([s EXCEPT !.breakpoints =
                        BpSet(@, requestId, [requestId |-> requestId, hitCount |-> 0])],
                    slot, TRUE)

\* A removeBreakpoint that deletes the entry whatever the VM answered.
removeBreakpointUnchecked(s, slot, t) ==
    Finish([s EXCEPT !.breakpoints = BpDelete(@, t.arg)], slot, t.res.ok)

\* removeBreakpoint after `await session.client.clearBreakpoint(requestId)`
removeBreakpointDone(s, slot, t) ==
    IF ~t.res.ok THEN Finish(s, slot, FALSE)
    ELSE Finish([s EXCEPT !.breakpoints = BpDelete(@, t.arg)], slot, TRUE)

\* clearAllBreakpoints after `await session.client.clearAllBreakpoints()`
clearAllBreakpointsDone(s, slot, t) ==
    IF ~t.res.ok THEN Finish(s, slot, FALSE)
    ELSE Finish([s EXCEPT !.breakpoints = <<>>], slot, TRUE)

\* resumeThread after `await session.client.resumeThread(threadId)`
resumeThreadDone(s, slot, t) ==
    IF ~t.res.ok THEN Finish(s, slot, FALSE)
    ELSE Finish([s EXCEPT !.suspendedThreads = SeqDelete(@, t.arg)], slot, TRUE)

\* DebugManager.resume after `await session.client.sendCommand(VirtualMachine,
\* Resume, ...)`: the session's sets are left as they are
resumeDone(s, slot, t) == Finish(s, slot, t.res.ok)

\* stopDebugging after `await session.client.disconnect()`
stopDebuggingDone(s, slot, t) ==
    Finish([s EXCEPT !.sessions = @ \ {ThePid}], slot, TRUE)

\* ------------------------------------------------------------ exec steps
\* JavaScript values: the number (or BigInt) hi * 2^32 + lo with lo a signed
\* 32-bit value, a boolean, null and undefined
\* (frac is the fractional part in tenths)
JSNumber(hi, lo) == [kind |-> "number", hi |-> hi, lo |-> lo, frac |-> 0]
JSFraction(lo, frac) == [kind |-> "number", hi |-> 0, lo |-> lo, frac |-> frac]
JSBigInt(hi, lo) == [kind |-> "bigint", hi |-> hi, lo |-> lo, frac |-> 0]
JSBoolean(v) == [kind |-> "boolean", hi |-> 0, lo |-> IF v THEN 1 ELSE 0, frac |-> 0]
JSNull == [kind |-> "null", hi |-> 0, lo |-> 0, frac |-> 0]
JSUndefined == [kind |-> "undefined", hi |-> 0, lo |-> 0, frac |-> 0]

NoCodec == [op |-> "none", pc |-> "", in |-> <<>>, out |-> <<>>]

\* the callers of startDebugging
MaxCallers == 3
Callers == 1..MaxCallers
NoAttach == [pc |-> [c \in Callers |-> "idle"], opened |-> {}, created |-> <<>>]

InRange(data, offset) == offset + 1 \in 1..Len(data)

\* data[offset]; -1 stands for undefined
readUint8(data, offset) == IF InRange(data, offset) THEN data[offset + 1] ELSE -1

readInt8(data, offset) ==
    LET val == readUint8(data, offset)
    IN  IF val = -1 THEN JSUndefined
        ELSE JSNumber(0, IF val > 127 THEN val - 256 ELSE val)

readInt16(data, offset) ==
    LET val == readUint16(data, offset)
    IN  JSNumber(0, IF val > 32767 THEN val - 65536 ELSE val)

\* readUint32 is already signed: `val > 2147483647` is never true
readInt32(data, offset) == JSNumber(0, readUint32(data, offset))

\* (high << 32n) | low on BigInts: a negative low word has all higher bits
\* set, so the high word is lost
readInt64(data, offset) ==
    LET high == readUint32(data, offset)
        low == readUint32(data, offset + 4)
    IN  IF low < 0 THEN JSBigInt(0, low) ELSE JSBigInt(high, low)

\* The double nearest to hi * 2^32 + lo.  Below 2^53 every integer is a
\* double; from 2^53 on (hi = 2^21) only the even ones are, and a tie goes to
\* the multiple of 4.  Greater magnitudes are not among the ids of the model.
ToDouble(hi, lo) ==
    IF hi = 2097152 /\ lo >= 0 /\ lo < 2147483647
    THEN JSNumber(hi, CASE lo % 4 = 1 -> lo - 1
                        [] lo % 4 = 3 -> lo + 1
                        [] OTHER -> lo)
    ELSE JSNumber(hi, lo)

\* readUint64: (high * 0x100000000) + low, both words read by readUint32
readObjectId(data, offset) ==
    ToDouble(readUint32(data, offset), readUint32(data, offset + 4))

parseValue(data, offset) ==
    LET tag == readUint8(data, offset)
        o == offset + 1
    IN  [tag |-> tag,
         value |->
            CASE tag = 66 -> readInt8(data, o)
              [] tag \in {67, 83} -> readInt16(data, o)
              [] tag \in {73, 70} -> readInt32(data, o)
              [] tag \in {74, 68} -> readInt64(data, o)
              [] tag = 90 -> JSBoolean(readUint8(data, o) # 0)
              [] tag \in {115, 76, 91, 116, 103, 108, 99} -> readObjectId(data, o)
              [] OTHER -> JSNull]

\* getReferenceTypeId after its reply: the class id, <<>> when it throws
referenceTypeId(res) ==
    IF ~res.ok \/ readUint32(res.data, 0) = 0 THEN <<>>
    ELSE <<readUint64(res.data, 5)>>

\* The loop of getMethodId over the Methods reply: the id of the first method
\* with this name and signature, <<>> when there is none.
RECURSIVE findMethodId(_, _, _, _, _)
findMethodId(data, offset, n, methodName, signature) ==
    IF n <= 0 THEN <<>>
    ELSE LET methodId == readUint64(data, offset)
             nameLength == readUint32(data, offset + 8)
             name == Slice(data, offset + 12, offset + 12 + nameLength)
             sigOffset == offset + 12 + nameLength
             sigLength == readUint32(data, sigOffset)
             sig == Slice(data, sigOffset + 4, sigOffset + 4 + sigLength)
         IN  IF name = methodName /\ sig = signature THEN <<methodId>>
             ELSE findMethodId(data, sigOffset + 4 + sigLength + 4, n - 1,
                               methodName, signature)

getMethodId(res, methodName, signature) ==
    IF ~res.ok THEN <<>>
    ELSE findMethodId(res.data, 4, readUint32(res.data, 0), methodName, signature)

N_getRuntime == <<103, 101, 116, 82, 117, 110, 116, 105, 109, 101>>
S_getRuntime == <<40, 41, 76, 106, 97, 118, 97, 47, 108, 97, 110, 103, 47, 82, 117, 110, 116, 105, 109, 101, 59>>
N_exec == <<101, 120, 101, 99>>
S_exec == <<40, 76, 106, 97, 118, 97, 47, 108, 97, 110, 103, 47, 83, 116, 114, 105, 110, 103, 59, 41, 76, 106, 97, 118, 97, 47, 108, 97, 110, 103, 47, 80, 114, 111, 99, 101, 115, 115, 59>>
N_waitFor == <<119, 97, 105, 116, 70, 111, 114>>
S_waitFor == <<40, 41, 73>>

\* A getRuntime that accepts whatever invokeStaticMethod returned.
getRuntimeDoneUnchecked(s, slot, t) ==
    IF ~t.res.ok THEN Finish(s, slot, FALSE)
    ELSE execSend(s, slot, t, "xCreateString", CS_VirtualMachine, 11, 0)

\* getRuntime after `await this.invokeStaticMethod(...)`, and exec up to
\* createString
getRuntimeDone(s, slot, t) ==
    IF ~t.res.ok THEN Finish(s, slot, FALSE)
    ELSE LET result == parseValue(t.res.data, 0)
         IN  IF result.tag # TAG_OBJECT \/ result.value = JSNumber(0, 0)
             THEN Finish(s, slot, FALSE)
             ELSE execSend(s, slot, t, "xCreateString", CS_VirtualMachine, 11, 0)

\* exec after `await this.invokeMethod(runtimeId, ..., execMethodId, ...)`
execInvoked(s, slot, t) ==
    IF ~t.res.ok \/ parseValue(t.res.data, 0).tag # TAG_OBJECT
    THEN Finish(s, slot, FALSE)
    ELSE execSend(s, slot, t, "xCbsProcess", CS_VirtualMachine, 2, Sig_Process)

\* exec after `await this.invokeMethod(processId, ..., waitForMethodId, [])`
waitForInvoked(s, slot, t) ==
    Finish(s, slot, t.res.ok /\ parseValue(t.res.data, 0).tag = TAG_INT)

\* exec continues after the await it was parked at
execContinue(s, slot, t) ==
    LET res == t.res
        class == referenceTypeId(res)
    IN  CASE t.pc = "xCbsRuntime" ->
                IF class = <<>> THEN Finish(s, slot, FALSE)
                ELSE execSend(s, slot, t, "xMethGetRuntime", CS_ReferenceType, 5, class[1])
          [] t.pc = "xMethGetRuntime" ->
                IF getMethodId(res, N_getRuntime, S_getRuntime) = <<>>
                THEN Finish(s, slot, FALSE)
                ELSE execSend(s, slot, t, "xGetRuntime", CS_ClassType, 3, t.arg)
          [] t.pc = "xGetRuntime" -> getRuntimeDone(s, slot, t)
          [] t.pc = "xCreateString" ->
                IF ~res.ok THEN Finish(s, slot, FALSE)
                ELSE execSend(s, slot, t, "xCbsExec", CS_VirtualMachine, 2, Sig_Process)
          [] t.pc = "xCbsExec" ->
                IF class = <<>> THEN Finish(s, slot, FALSE)
                ELSE execSend(s, slot, t, "xMethExec", CS_ReferenceType, 5, class[1])
          [] t.pc = "xMethExec" ->
                IF getMethodId(res, N_exec, S_exec) = <<>> THEN Finish(s, slot, FALSE)
                ELSE execSend(s, slot, t, "xExec", CS_ObjectReference, 6, t.arg)
          [] t.pc = "xExec" -> execInvoked(s, slot, t)
          [] t.pc = "xCbsProcess" ->
                IF class = <<>> THEN Finish(s, slot, FALSE)
                ELSE execSend(s, slot, t, "xMethWaitFor", CS_ReferenceType, 5, class[1])
          [] t.pc = "xMethWaitFor" ->
                IF getMethodId(res, N_waitFor, S_waitFor) = <<>> THEN Finish(s, slot, FALSE)
                ELSE execSend(s, slot, t, "xWaitFor", CS_ObjectReference, 6, t.arg)
          [] OTHER -> waitForInvoked(s, slot, t)

ExecPcs == {"xCbsRuntime", "xMethGetRuntime", "xGetRuntime", "xCreateString",
            "xCbsExec", "xMethExec", "xExec", "xCbsProcess", "xMethWaitFor",
            "xWaitFor"}

\* --------------------------------------------------------- continuations
\* The async function of `slot` continues after the await it was parked at.
Continue(s, slot) ==
    LET t == s.tasks[slot]
        res == t.res
    IN  CASE t.pc = "threadStart" -> setupVMEventsDone(s, slot, t)
          [] t.pc = "allThreads" ->
                IF res.ok
                THEN getThreadsLoop(s, slot, [t EXCEPT !.data = res.data, !.arg = 0])
                ELSE Finish(s, slot, t.op # "executeJDWP")
          [] t.pc = "tName" ->
                IF res.ok
                THEN sendCommand(s, slot, [t EXCEPT !.pc = "tStatus"], CS_ThreadReference, 4,
                                 readUint64(t.data, 4 + t.arg * 8))
                ELSE getThreadInfoDone(s, slot, t)
          [] t.pc = "tStatus" ->
                IF res.ok
                THEN sendCommand(s, slot, [t EXCEPT !.pc = "tCount"], CS_ThreadReference, 12,
                                 readUint64(t.data, 4 + t.arg * 8))
                ELSE getThreadInfoDone(s, slot, t)
          [] t.pc = "tCount" -> getThreadInfoDone(s, slot, t)
          [] t.pc = "classes" ->
                IF ~res.ok \/ readUint32(res.data, 0) = 0 THEN Finish(s, slot, FALSE)
                ELSE sendCommand(s, slot, [t EXCEPT !.pc = "methods"], CS_ReferenceType, 5,
                                 readUint64(res.data, 5))
          [] t.pc = "methods" ->
                IF ~res.ok \/ findMethod(getMethods(res.data), MethodName) = 0
                THEN Finish(s, slot, FALSE)
                ELSE sendCommand(s, slot, [t EXCEPT !.pc = "set"], CS_EventRequest, 1,
                                 BREAKPOINT)
          [] t.pc = "set" -> setBreakpointDone(s, slot, t)
          [] t.pc = "remove" -> removeBreakpointDone(s, slot, t)
          [] t.pc = "clearAll" -> clearAllBreakpointsDone(s, slot, t)
          [] t.pc = "resumeThread" -> resumeThreadDone(s, slot, t)
          [] t.pc = "resume" -> resumeDone(s, slot, t)
          [] t.pc \in {"stopClear", "stopResume"} -> stopNext(s, slot, t)
          [] t.pc = "disconnected" -> stopDebuggingDone(s, slot, t)
          [] t.pc \in ExecPcs -> execContinue(s, slot, t)
          [] OTHER -> s


\* ------------------------------------------------------------ environment
NoSettle == [id |-> 0, ok |-> TRUE, err |-> "", code |-> 0, data |-> <<>>]
NoSent == [id |-> 0, commandSet |-> 0, command |-> 0, arg |-> 0, written |-> FALSE]
NoResult == [op |-> "", by |-> "", ok |-> TRUE]
NoReply == [id |-> 0, data |-> <<>>, matched |-> FALSE]

\* The observation variables describe the step just taken.
Obs(s) == [s EXCEPT !.lastSettled = NoSettle, !.lastSent = NoSent,
                    !.lastReply = NoReply, !.lastDispatch = <<>>, !.lastTimer = 0,
                    !.lastDisconnect = FALSE, !.lastEof = FALSE,
                    !.lastResult = NoResult, !.lastPacket = <<>>]

\* replies to the commands of exec: the methods of java.lang.Runtime and of
\* java.lang.Process, a tagged object id followed by the (null) exception, a
\* tagged int likewise, a lone tag byte, and an untagged object id
P_RuntimeMethods ==
    <<0, 0, 0, 2, 0, 0, 0, 0, 0, 0, 0, 7, 0, 0, 0, 10, 103, 101, 116, 82, 117, 110, 116, 105, 109, 101, 0, 0, 0, 21, 40, 41, 76, 106, 97, 118, 97, 47, 108, 97, 110, 103, 47, 82, 117, 110, 116, 105, 109, 101, 59, 0, 0, 0, 1, 0, 0, 0, 0, 0, 0, 0, 8, 0, 0, 0, 4, 101, 120, 101, 99, 0, 0, 0, 39, 40, 76, 106, 97, 118, 97, 47, 108, 97, 110, 103, 47, 83, 116, 114, 105, 110, 103, 59, 41, 76, 106, 97, 118, 97, 47, 108, 97, 110, 103, 47, 80, 114, 111, 99, 101, 115, 115, 59, 0, 0, 0, 1>>
P_ProcessMethods ==
    <<0, 0, 0, 1, 0, 0, 0, 0, 0, 0, 0, 9, 0, 0, 0, 7, 119, 97, 105, 116, 70, 111, 114, 0, 0, 0, 3, 40, 41, 73, 0, 0, 0, 1>>
P_Object == <<76, 0, 0, 0, 0, 0, 0, 0, 5, 76, 0, 0, 0, 0, 0, 0, 0, 0>>
P_Int0 == <<73, 0, 0, 0, 0, 76, 0, 0, 0, 0, 0, 0, 0, 0>>
P_TagOnly == <<76>>
P_ObjectId == <<0, 0, 0, 0, 0, 0, 0, 6>>

ErrPayloads == {P_Err, P_ErrHigh}

\* What the VM answers to the command a function is waiting on at pc.
ReplyPayloads(pc) ==
    CASE pc \in {"threadStart", "set"} -> {P_Id1} \cup ErrPayloads
      [] pc = "allThreads" -> {P_Threads, P_None} \cup ErrPayloads
      [] pc \in {"tName", "tStatus", "tCount"} -> {P_Id1, P_Err}
      [] pc \in {"classes", "xCbsRuntime", "xCbsExec", "xCbsProcess"} ->
            {P_Classes, P_None, P_Err}
      [] pc \in {"xMethGetRuntime", "xMethExec", "xMethWaitFor"} ->
            {P_RuntimeMethods, P_ProcessMethods, P_Err}
      [] pc \in {"xGetRuntime", "xExec", "xWaitFor"} ->
            {P_Object, P_Int0, P_TagOnly, P_Short, P_Err}
      [] pc = "xCreateString" -> {P_ObjectId, P_Err}
      [] pc = "methods" -> {P_Methods, P_None, P_Err}
      [] pc \in {"remove", "clearAll", "resumeThread", "resume", "stopClear",
                 "stopResume"} ->
            {P_Empty, P_Short, P_Err}
      [] OTHER -> {P_Empty}

WaitingPc(id) ==
    LET w == {i \in Slots : tasks[i].op # "none" /\ tasks[i].wait = id}
    IN  IF w = {} THEN "" ELSE tasks[CHOOSE i \in w : TRUE].pc

ReplyPacket(id, data) ==
    [flags |-> ReplyFlag, id |-> id, commandSet |-> 0, command |-> 0,
     data |-> data, events |-> <<>>]

\* ids the VM may answer: every pending one, and the oldest id that is not
\* pending (a late or unsolicited reply)
ReplyIds ==
    LET others == (1..packetIdCounter) \ DOMAIN responseHandlers
    IN  DOMAIN responseHandlers
        \cup {i \in others : \A j \in others : i <= j}

ReplyPackets == UNION {{ReplyPacket(id, d) : d \in ReplyPayloads(WaitingPc(id))} : id \in ReplyIds}

Event(kind, requestId, threadId) ==
    [eventKind |-> kind, requestId |-> requestId, threadId |-> threadId]

\* The events the VM sends: a hit of the breakpoint request 1, a thread start
\* tagged with the id of the ThreadStart request, and the automatic
\* THREAD_DEATH and VM_DEATH events (request id 0).
EventSet ==
    {Event(BREAKPOINT, 1, 1), Event(THREAD_START, 1, 1),
     Event(THREAD_DEATH, 0, 1), Event(VM_DEATH, 0, 0)}

\* VM_DEATH is the last event a VM sends.
EventSeqs ==
    {evs \in UNION {[1..n -> EventSet] : n \in 1..MaxEvents} :
        \A i \in 1..(Len(evs) - 1) : evs[i].eventKind # VM_DEATH}

EventPacket(evs) ==
    [flags |-> 0, id |-> 0, commandSet |-> CompositeCommandSet,
     command |-> CompositeCommand, data |-> <<>>, events |-> evs]

DeathCount(evs) == Cardinality({i \in 1..Len(evs) : evs[i].eventKind = VM_DEATH})

\* ---------------------------------------------------------------- actions
\* the JDWPClient, the DebugManager and the host after construction
InitClient ==
    /\ packetIdCounter = 1
    /\ responseHandlers = EmptyMap
    /\ eventCallbacks = EmptyMap
    /\ unsettled = {}
    /\ lastSettled = NoSettle
    /\ timers = <<>>
    /\ nextTimerId = TimersArmedBefore + 1
    /\ transportMade = FALSE
    /\ connected = FALSE
    /\ reader = FALSE
    /\ writer = FALSE
    /\ socket = FALSE
    /\ packetCallback = FALSE
    /\ streamErrored = FALSE
    /\ vmDead = FALSE
    /\ sessions = {}
    /\ breakpoints = <<>>
    /\ threads = {}
    /\ suspendedThreads = <<>>
    /\ currentThread = 0
    /\ tasks = [i \in Slots |-> NoTask]
    /\ ready = <<>>
    /\ opsMade = 0
    /\ lastSent = NoSent
    /\ lastReply = NoReply
    /\ lastDispatch = <<>>
    /\ lastTimer = 0
    /\ lastDisconnect = FALSE
    /\ lastEof = FALSE
    /\ lastResult = NoResult
    /\ lastPacket = <<>>

Init ==
    /\ InitClient
    /\ transportKind = "webusb"
    /\ connectPc = "new"
    /\ wire = <<>>
    /\ inbound = <<>>
    /\ pendingData = <<>>
    /\ delivered = <<>>
    /\ written = <<>>
    /\ invalidLength = FALSE
    /\ codec = NoCodec
    /\ attach = NoAttach

\* The turn of the event loop just taken left observations behind.
Observed ==
    \/ lastSettled # NoSettle
    \/ lastSent # NoSent
    \/ lastReply # NoReply
    \/ lastDispatch # <<>>
    \/ lastTimer # 0
    \/ lastDisconnect
    \/ lastEof
    \/ lastResult # NoResult
    \/ lastPacket # <<>>

\* No continuation is queued and the last turn is over.
Quiet == ready = <<>> /\ ~Observed

\* The event loop takes the next macrotask.  A timer whose command is already
\* settled changes nothing but the timer list when it fires (its entry is
\* gone and reject() on a settled promise does nothing), so the model lets
\* such a timer fire before any other macrotask.
Idle == Quiet /\ (IF timers = <<>> THEN TRUE ELSE Head(timers).id \in unsettled)
\* The user makes one facade call at a time (stopDebugging excepted).
MayStart == Idle /\ opsMade < MaxOps /\ FreeSlots(Cur) = Slots
Op(s) == [Obs(s) EXCEPT !.opsMade = @ + 1]
Fail(s, op) == [s EXCEPT !.lastResult = [op |-> op, by |-> "user", ok |-> FALSE]]

\* A startDebugging without the check for an existing session.
startDebuggingUnchecked(s) ==
    IF FreeSlots(s) = {} THEN Fail(s, "start")
    ELSE [s EXCEPT !.transportMade = TRUE,
                   !.tasks[FreeSlot(s)] =
                       [NewTask("start", "user") EXCEPT !.pc = "connect"]]

\* DebugManager.startDebugging(packageName, pid), up to `await client.connect()`
startDebugging(s) ==
    IF ThePid \in s.sessions THEN Fail(s, "start")
    ELSE [s EXCEPT !.transportMade = TRUE,
                   !.tasks[FreeSlot(s)] =
                       [NewTask("start", "user") EXCEPT !.pc = "connect"]]

\* The user attaches once; a call made while the session exists is rejected.
StartDebugging ==
    /\ Idle
    /\ ThePid \in sessions \/ (~transportMade /\ FreeSlots(Cur) # {})
    /\ Becomes(startDebugging(Obs(Cur)))

\* transport.connect() completes; JDWPClient.connect registers handlePacket on
\* success and swallows a failure; startDebugging goes on in both cases.
ConnectDone(slot, ok) ==
    /\ Idle
    /\ tasks[slot].pc = "connect"
    /\ LET s == Obs(Cur)
           s1 == IF ok THEN [s EXCEPT !.reader = TRUE, !.writer = TRUE, !.socket = TRUE,
                                      !.connected = TRUE, !.packetCallback = TRUE]
                 ELSE s
       IN  Becomes(startDebuggingConnected(s1, slot, tasks[slot]))

StopDebugging ==
    /\ Idle
    /\ IF ThePid \in sessions
       THEN /\ opsMade < MaxOps
            /\ FreeSlots(Cur) # {}
            /\ Becomes(stopDebugging(Op(Cur), "user"))
       ELSE Becomes(stopDebugging(Obs(Cur), "user"))

SetBreakpoint ==
    /\ Idle
    /\ IF ThePid \in sessions
       THEN /\ MayStart
            /\ Becomes(sendCommand(Op(Cur), FreeSlot(Cur),
                                   [NewTask("setBreakpoint", "user") EXCEPT !.pc = "classes"],
                                   CS_VirtualMachine, 2, 0))
       ELSE Becomes(Fail(Obs(Cur), "setBreakpoint"))

RemoveBreakpoint(r) ==
    /\ Idle
    /\ IF ThePid \in sessions
       THEN /\ MayStart
            /\ Becomes(sendCommand(Op(Cur), FreeSlot(Cur),
                                   [NewTask("removeBreakpoint", "user") EXCEPT
                                       !.pc = "remove", !.arg = r],
                                   CS_EventRequest, 2, r))
       ELSE Becomes(Fail(Obs(Cur), "removeBreakpoint"))

ClearAllBreakpoints ==
    /\ Idle
    /\ IF ThePid \in sessions
       THEN /\ MayStart
            /\ Becomes(sendCommand(Op(Cur), FreeSlot(Cur),
                                   [NewTask("clearAllBreakpoints", "user") EXCEPT
                                       !.pc = "clearAll"],
                                   CS_EventRequest, 3, 0))
       ELSE Becomes(Fail(Obs(Cur), "clearAllBreakpoints"))

\* removeBreakpoint called while another facade call (the attach included) is
\* still in flight
RemoveBreakpointOverlapping(r) ==
    /\ Idle
    /\ ThePid \in sessions
    /\ opsMade < MaxOps
    /\ FreeSlots(Cur) # {}
    /\ FreeSlots(Cur) # Slots
    /\ Becomes(sendCommand(Op(Cur), FreeSlot(Cur),
                           [NewTask("removeBreakpoint", "user") EXCEPT
                               !.pc = "remove", !.arg = r],
                           CS_EventRequest, 2, r))

\* DebugManager.suspendThread: JDWPClient has no suspendThread method, the
\* call throws a TypeError before anything is sent.
SuspendThread(th) ==
    /\ Idle
    /\ Becomes(Fail(Obs(Cur), "suspendThread"))

ResumeThread(th) ==
    /\ Idle
    /\ IF ThePid \in sessions
       THEN /\ MayStart
            /\ Becomes(sendCommand(Op(Cur), FreeSlot(Cur),
                                   [NewTask("resumeThread", "user") EXCEPT
                                       !.pc = "resumeThread", !.arg = th],
                                   CS_ThreadReference, 1, th))
       ELSE Becomes(Fail(Obs(Cur), "resumeThread"))

\* DebugManager.onEvent / removeEventListener called by the user
OnEvent(r) ==
    /\ Idle
    /\ ThePid \in sessions
    /\ Becomes([Obs(Cur) EXCEPT !.eventCallbacks = MapPut(@, r, "user")])

RemoveEventListener(r) ==
    /\ Idle
    /\ ThePid \in sessions
    /\ r \in DOMAIN eventCallbacks
    /\ Becomes([Obs(Cur) EXCEPT !.eventCallbacks = MapRemove(@, r)])

\* readLoop: one read that carries one packet
Read(packet) ==
    /\ Idle
    /\ connected
    /\ ~vmDead
    /\ LET s == [Obs(Cur) EXCEPT !.vmDead = DeathCount(packet.events) > 0]
       IN  Becomes(IF packetCallback THEN handlePacket(s, packet) ELSE s)

ReadReply == \E p \in ReplyPackets : Read(p)

ReadEvents ==
    \E evs \in EventSeqs :
        /\ DeathCount(evs) <= Cardinality(FreeSlots(Cur))
        /\ Read(EventPacket(evs))

\* readLoop: the read returns done; handleDisconnect
EndOfStream ==
    /\ Idle
    /\ connected
    /\ Becomes([Obs(Cur) EXCEPT !.connected = FALSE, !.lastEof = TRUE])

\* the writable stream becomes errored: writes fail from now on
StreamError ==
    /\ Idle
    /\ writer
    /\ ~streamErrored
    /\ Becomes([Obs(Cur) EXCEPT !.streamErrored = TRUE])

\* the oldest armed timer fires (all timers have the same delay)
TimerFire ==
    /\ Quiet
    /\ timers # <<>>
    /\ Becomes(timeoutCallback([Obs(Cur) EXCEPT !.timers = Tail(@),
                                                 !.lastTimer = Head(timers).id],
                                Head(timers).id))

\* reader.cancel(), writer.close() or socket.close() awaited by
\* transport.disconnect() completes
IoDone(slot) ==
    /\ Idle
    /\ tasks[slot].pc \in {"tdCancel", "tdClose", "tdSock"}
    /\ LET s == Obs(Cur)
           t == tasks[slot]
           s1 == CASE t.pc = "tdCancel" -> [s EXCEPT !.reader = FALSE]
                   [] t.pc = "tdClose" -> [s EXCEPT !.writer = FALSE]
                   [] OTHER -> [s EXCEPT !.socket = FALSE]
       IN  Becomes(Transport_disconnectNext(s1, slot, t))

\* the next queued continuation runs
RunReady ==
    /\ ready # <<>>
    /\ LET item == Head(ready)
           s == [Obs(Cur) EXCEPT !.ready = Tail(@)]
       IN  IF item.kind = "sendFail"
           THEN Becomes(sendPacketCatch(s, item.id, item.handle))
           ELSE Becomes(Continue(s, item.slot))

\* the turn of the event loop ends: its observations are dropped
TurnEnd ==
    /\ ready = <<>>
    /\ Observed
    /\ Becomes(Obs(Cur))

Next ==
    \/ StartDebugging
    \/ \E slot \in Slots, ok \in BOOLEAN : ConnectDone(slot, ok)
    \/ StopDebugging
    \/ SetBreakpoint
    \/ \E r \in RequestIds : RemoveBreakpoint(r)
    \/ ClearAllBreakpoints
    \/ \E th \in ThreadIds : SuspendThread(th)
    \/ \E th \in ThreadIds : ResumeThread(th)
    \/ \E r \in RequestIds : OnEvent(r)
    \/ \E r \in RequestIds : RemoveEventListener(r)
    \/ ReadReply
    \/ ReadEvents
    \/ EndOfStream
    \/ StreamError
    \/ TimerFire
    \/ \E slot \in Slots : IoDone(slot)
    \/ RunReady
    \/ TurnEnd

Spec == Init /\ [][Next]_vars

\* DebugManager.executeJDWP(pid, command, threadId), threadId 0 when the
\* caller gave none
executeJDWP(s, threadId) ==
    IF ThePid \notin s.sessions THEN Fail(s, "executeJDWP")
    ELSE LET slot == FreeSlot(s)
             t == [NewTask("executeJDWP", "user") EXCEPT !.given = threadId]
         IN  IF threadId # 0 THEN exec(s, slot, t, threadId)
             ELSE IF s.currentThread # 0 THEN exec(s, slot, t, s.currentThread)
             ELSE sendCommand(s, slot, [t EXCEPT !.pc = "allThreads"],
                              CS_VirtualMachine, 4, 0)

\* The user runs a command in the app, on a thread of their choice or on none.
ExecuteJDWP(th) ==
    /\ Idle
    /\ IF ThePid \in sessions
       THEN /\ MayStart
            /\ Becomes(executeJDWP(Op(Cur), th))
       ELSE Becomes(executeJDWP(Obs(Cur), th))

\* The program with a user who attaches, sets breakpoints and runs commands.
NextExec ==
    \/ StartDebugging
    \/ \E slot \in Slots, ok \in BOOLEAN : ConnectDone(slot, ok)
    \/ SetBreakpoint
    \/ \E th \in {0} \cup ThreadIds : ExecuteJDWP(th)
    \/ ReadReply
    \/ ReadEvents
    \/ EndOfStream
    \/ StreamError
    \/ TimerFire
    \/ \E slot \in Slots : IoDone(slot)
    \/ RunReady
    \/ TurnEnd

SpecExec == Init /\ [][NextExec]_vars

\* DebugManager.resume(pid): VirtualMachine.Resume (command 9) with no data
Resume ==
    /\ Idle
    /\ IF ThePid \in sessions
       THEN /\ MayStart
            /\ Becomes(sendCommand(Op(Cur), FreeSlot(Cur),
                                   [NewTask("resume", "user") EXCEPT !.pc = "resume"],
                                   CS_VirtualMachine, 9, 0))
       ELSE Becomes(Fail(Obs(Cur), "resume"))

\* A user who attaches, sets a breakpoint, resumes the VM or one thread, and
\* stops.
NextResume ==
    \/ StartDebugging
    \/ \E slot \in Slots, ok \in BOOLEAN : ConnectDone(slot, ok)
    \/ SetBreakpoint
    \/ Resume
    \/ \E th \in ThreadIds : ResumeThread(th)
    \/ StopDebugging
    \/ ReadReply
    \/ ReadEvents
    \/ EndOfStream
    \/ StreamError
    \/ TimerFire
    \/ \E slot \in Slots : IoDone(slot)
    \/ RunReady
    \/ TurnEnd

SpecResume == Init /\ [][NextResume]_vars

\* A user who attaches, sets a breakpoint and stops, a VM that answers or
\* not, a stream that ends or fails; on a host whose event loop keeps
\* running: an armed timer fires, a queued continuation runs, the turn ends,
\* a close of the stream completes.
NextLive ==
    \/ StartDebugging
    \/ \E slot \in Slots, ok \in BOOLEAN : ConnectDone(slot, ok)
    \/ SetBreakpoint
    \/ StopDebugging
    \/ ReadReply
    \/ EndOfStream
    \/ StreamError
    \/ TimerFire
    \/ \E slot \in Slots : IoDone(slot)
    \/ RunReady
    \/ TurnEnd

SpecLive ==
    /\ Init
    /\ [][NextLive]_vars
    /\ SF_vars(TimerFire)
    /\ SF_vars(\E slot \in Slots : IoDone(slot))
    /\ WF_vars(RunReady)
    /\ WF_vars(TurnEnd)

\* ------------------------------------------- concurrent startDebugging
\* startDebugging(packageName, ThePid) of several callers, one action for
\* each stretch between two awaits.  Each call has its own transport and
\* its own JDWPClient; the registry `sessions` is shared.
attachRest ==
    <<packetIdCounter, responseHandlers, eventCallbacks, unsettled, lastSettled,
      timers, nextTimerId, transportMade, connected, reader, writer, socket,
      packetCallback, streamErrored, vmDead, breakpoints, threads, suspendedThreads,
      currentThread, tasks, ready, opsMade, lastSent, lastReply, lastDispatch,
      lastTimer, lastDisconnect, lastEof, lastResult, lastPacket, tvars, codec>>

\* the call up to `await this.createTransport(pid)`: the check of the registry
startDebuggingCall(c) ==
    /\ attach.pc[c] = "idle"
    /\ attach' = [attach EXCEPT !.pc[c] = IF ThePid \in sessions THEN "rejected"
                                          ELSE "createTransport"]
    /\ UNCHANGED <<sessions, attachRest>>

\* createTransport has returned: new JDWPClient(transport), and
\* client.connect() calls transport.connect()
createTransportDone(c) ==
    /\ attach.pc[c] = "createTransport"
    /\ attach' = [attach EXCEPT !.pc[c] = "connect"]
    /\ UNCHANGED <<sessions, attachRest>>

\* client.connect() has returned, its transport opened or not (a failure is
\* only logged): the session is made and stored, initializeSession is called
clientConnectDone(c, ok) ==
    /\ attach.pc[c] = "connect"
    /\ attach' = [attach EXCEPT !.pc[c] = "initialize",
                                !.opened = IF ok THEN @ \cup {c} ELSE @,
                                !.created = Append(@, c)]
    /\ sessions' = sessions \cup {ThePid}
    /\ UNCHANGED attachRest

\* initializeSession has returned: 'sessionStarted' is emitted and the call
\* returns its session
initializeSessionDone(c) ==
    /\ attach.pc[c] = "initialize"
    /\ attach' = [attach EXCEPT !.pc[c] = "returned"]
    /\ UNCHANGED <<sessions, attachRest>>

NextAttach ==
    \/ \E c \in Callers : startDebuggingCall(c)
    \/ \E c \in Callers : createTransportDone(c)
    \/ \E c \in Callers, ok \in BOOLEAN : clientConnectDone(c, ok)
    \/ \E c \in Callers : initializeSessionDone(c)

SpecAttach == Init /\ [][NextAttach]_vars

\* DebugManager.onEvent with a listener that throws when it is called
OnEventThrowing(r) ==
    /\ Idle
    /\ ThePid \in sessions
    /\ Becomes([Obs(Cur) EXCEPT !.eventCallbacks = MapPut(@, r, "throws")])

\* The same program with a user whose listeners may throw.
NextThrowing ==
    \/ Next
    \/ \E r \in RequestIds : OnEventThrowing(r)

SpecThrowing == Init /\ [][NextThrowing]_vars

\* The same program with a user who also makes overlapping calls.
NextOverlap ==
    \/ Next
    \/ \E r \in RequestIds : RemoveBreakpointOverlapping(r)

SpecOverlap == Init /\ [][NextOverlap]_vars

\* ---------------------------------------------------- transport, in bytes
\* The two transports, WebUSBJDWPTransport and NodeTcpJDWPTransport, with the
\* inbound stream as bytes and every read a chunk of it.
TransportKinds == {"webusb", "node"}

\* 'JDWP-Handshake' in US-ASCII, and a reply that differs from it
Handshake == <<74, 68, 87, 80, 45, 72, 97, 110, 100, 115, 104, 97, 107, 101>>
BadHandshake == <<74, 68, 87, 80, 45, 72, 97, 110, 100, 115, 104, 97, 107, 69>>

\* minimum size of a JDWP packet: the header
MinPacketLen == 11

\* packets of the peer: a reply without payload, a packet with two bytes of
\* payload, a header that declares the length 5, a header whose first length
\* byte is 0xff; and a command of the client
PktReply == <<0, 0, 0, 11, 0, 0, 0, 1, 128, 0, 0>>
PktEvent == <<0, 0, 0, 13, 0, 0, 0, 2, 0, 64, 100, 7, 9>>
PktShortLength == <<0, 0, 0, 5, 0, 0, 0, 3, 128, 0, 0>>
PktHugeLength == <<255, 0, 0, 11, 0, 0, 0, 3, 128, 0, 0>>
PktCommand == <<0, 0, 0, 11, 0, 0, 0, 1, 0, 1, 1>>
PeerPackets == {PktReply, PktEvent, PktShortLength, PktHugeLength}

RECURSIVE PacketStreams(_)
PacketStreams(n) ==
    IF n = 0 THEN {<<>>}
    ELSE LET shorter == PacketStreams(n - 1)
         IN  shorter \cup {p \o w : p \in PeerPackets, w \in shorter}

\* what the peer sends: the VM behind a WebUSB transport answers the
\* handshake first; the Node transport sends no handshake
Wires(kind) ==
    IF kind = "webusb"
    THEN {h \o w : h \in {Handshake, BadHandshake}, w \in PacketStreams(MaxPackets)}
    ELSE PacketStreams(MaxPackets) \ {<<>>}

\* the bytes read so far
received == SubSeq(wire, 1, Len(wire) - Len(inbound))

\* readUint32BE of the transports
readUint32BE(data, offset) == readUint32(data, offset)

\* processJdwpPackets: t is the transport's part of the state
RECURSIVE processJdwpPackets(_)
processJdwpPackets(t) ==
    IF Len(t.pendingData) < MinPacketLen THEN t
    ELSE LET length == readUint32BE(t.pendingData, 0)
         IN  IF length < MinPacketLen
             THEN [t EXCEPT !.pendingData = <<>>, !.invalidLength = TRUE]
             ELSE IF Len(t.pendingData) < length THEN t
             ELSE processJdwpPackets(
                      [t EXCEPT !.pendingData = Slice(@, length, Len(@)),
                                !.delivered =
                                    IF t.packetCallback
                                    THEN Append(@, Slice(t.pendingData, 0, length))
                                    ELSE @])

\* the body of the loop of readLoop for a read that returned `value`
readLoopValue(t, value) ==
    IF t.packetCallback
    THEN processJdwpPackets([t EXCEPT !.pendingData = @ \o value])
    ELSE t

\* performJDWPHandshake(reader, writer): writes the handshake, reads the 14
\* bytes of the reply (chunk holds them and what came with them in the same
\* read) and returns what follows them; ok is FALSE when it throws
performJDWPHandshake(chunk) ==
    [ok |-> Slice(chunk, 0, Len(Handshake)) = Handshake,
     rest |-> Slice(chunk, Len(Handshake), Len(chunk))]

\* everything but the transport
clientVars ==
    <<packetIdCounter, responseHandlers, eventCallbacks, unsettled, lastSettled,
      timers, nextTimerId, transportMade, streamErrored, vmDead, sessions,
      breakpoints, threads, suspendedThreads, currentThread, tasks, ready, opsMade,
      lastSent, lastReply, lastDispatch, lastTimer, lastDisconnect, lastEof,
      lastResult, lastPacket>>

InitTransport ==
    /\ InitClient
    /\ transportKind \in TransportKinds
    /\ connectPc = "new"
    /\ wire \in Wires(transportKind)
    /\ inbound = wire
    /\ pendingData = <<>>
    /\ delivered = <<>>
    /\ written = <<>>
    /\ invalidLength = FALSE
    /\ codec = NoCodec
    /\ attach = NoAttach

\* transport.connect() up to its first await that depends on the peer: the
\* socket is opened (or not), reader and writer are taken, connected is set.
\* The Node transport then starts its read loop and resolves; the WebUSB
\* transport awaits performJDWPHandshake.  When the socket cannot be opened
\* connect() rejects, which JDWPClient.connect only logs.
TransportConnect(ok) ==
    /\ connectPc = "new"
    /\ IF ok
       THEN /\ socket' = TRUE
            /\ reader' = TRUE
            /\ writer' = TRUE
            /\ connected' = TRUE
            /\ connectPc' = IF transportKind = "webusb" THEN "handshake" ELSE "started"
       ELSE /\ connectPc' = "failed"
            /\ UNCHANGED <<socket, reader, writer, connected>>
    /\ UNCHANGED <<attach, codec, clientVars, packetCallback, transportKind, wire, inbound,
                   pendingData, delivered, written, invalidLength>>

\* WebUSB: performJDWPHandshake returns or throws; n is the number of bytes
\* that came in the same read as the end of the reply
HandshakeDone(n) ==
    /\ connectPc = "handshake"
    /\ Len(Handshake) + n <= Len(inbound)
    /\ LET chunk == SubSeq(inbound, 1, Len(Handshake) + n)
           h == performJDWPHandshake(chunk)
       IN  /\ written' = Append(written, Handshake)
           /\ inbound' = SubSeq(inbound, Len(chunk) + 1, Len(inbound))
           /\ IF h.ok
              THEN /\ pendingData' = h.rest
                   /\ connectPc' = "started"
              ELSE /\ pendingData' = pendingData
                   /\ connectPc' = "failed"
    /\ UNCHANGED <<attach, codec, clientVars, socket, reader, writer, connected, packetCallback,
                   transportKind, wire, delivered, invalidLength>>

\* JDWPClient.connect after `await this.transport.connect()`: onPacket
OnPacket ==
    /\ connectPc \in {"started", "read"}
    /\ packetCallback' = TRUE
    /\ connectPc' = "attached"
    /\ UNCHANGED <<attach, codec, clientVars, socket, reader, writer, connected, transportKind, wire,
                   inbound, pendingData, delivered, written, invalidLength>>

\* readLoop: a read returns the next n bytes.  The loop is started inside
\* connect(): a chunk that is already queued then is read before
\* JDWPClient.connect has registered the packet callback.
ReadChunk(n) ==
    /\ connectPc \in {"started", "attached"}
    /\ connected
    /\ n <= Len(inbound)
    /\ LET t == readLoopValue([pendingData |-> pendingData, delivered |-> delivered,
                               invalidLength |-> invalidLength,
                               packetCallback |-> packetCallback],
                              SubSeq(inbound, 1, n))
       IN  /\ pendingData' = t.pendingData
           /\ delivered' = t.delivered
           /\ invalidLength' = t.invalidLength
    /\ inbound' = SubSeq(inbound, n + 1, Len(inbound))
    /\ connectPc' = IF connectPc = "started" THEN "read" ELSE connectPc
    /\ UNCHANGED <<attach, codec, clientVars, socket, reader, writer, connected, packetCallback,
                   transportKind, wire, written>>

\* readLoop: the read returns done; handleDisconnect
ReadDone ==
    /\ connectPc \in {"started", "attached"}
    /\ connected
    /\ connected' = FALSE
    /\ UNCHANGED <<attach, codec, clientVars, socket, reader, writer, packetCallback, tvars>>

\* sendPacket called by the client once JDWPClient.connect has returned
SendPacket ==
    /\ connectPc \in {"attached", "failed"}
    /\ Len(written) <= MaxWrites
    /\ written' = IF ~writer \/ ~connected THEN written ELSE Append(written, PktCommand)
    /\ UNCHANGED <<attach, codec, clientVars, socket, reader, writer, connected, packetCallback,
                   transportKind, connectPc, wire, inbound, pendingData, delivered,
                   invalidLength>>

NextTransport ==
    \/ \E ok \in BOOLEAN : TransportConnect(ok)
    \/ \E n \in 0..MaxChunk : HandshakeDone(n)
    \/ OnPacket
    \/ \E n \in 1..MaxChunk : ReadChunk(n)
    \/ ReadDone
    \/ SendPacket

SpecTransport == InitTransport /\ [][NextTransport]_vars

\* The transports on a host that runs every continuation that is ready:
\* connect() goes on after its awaits, JDWPClient.connect registers its
\* callback, and a read whose bytes have arrived returns.  The end of the
\* stream and the writes of the client are not forced.
SpecTransportLive ==
    /\ SpecTransport
    /\ WF_vars(\E ok \in BOOLEAN : TransportConnect(ok))
    /\ WF_vars(\E n \in 0..MaxChunk : HandshakeDone(n))
    /\ WF_vars(OnPacket)
    /\ WF_vars(\E n \in 1..MaxChunk : ReadChunk(n))

\* ------------------------------------------------------------- byte codecs
\* ToInt32 of a number, as the operators >> and & apply it: the fraction is
\* dropped (towards zero), the low 32 bits are kept.
ToInt32(v) ==
    IF v.frac # 0 /\ (v.hi < 0 \/ (v.hi = 0 /\ v.lo < 0)) THEN v.lo + 1 ELSE v.lo

\* the four bytes writeUint32 stores for a value whose ToInt32 is n
Bytes32(n) ==
    <<(n \div 16777216) % 256, (n \div 65536) % 256, (n \div 256) % 256, n % 256>>

writeInt8(value) == <<ToInt32(value) % 256>>
writeUint16(value) == <<(ToInt32(value) \div 256) % 256, ToInt32(value) % 256>>
writeUint32(value) == Bytes32(ToInt32(value))

\* the high word of the 64-bit two's complement form of hi * 2^32 + lo
HighWord(v) ==
    IF v.lo >= 0 THEN v.hi
    ELSE IF v.hi = -2147483647 - 1 THEN 2147483647 ELSE v.hi - 1

\* writeUint64: Math.floor(value / 0x100000000) and value % 0x100000000, each
\* stored by writeUint32
writeUint64(value) == Bytes32(HighWord(value)) \o Bytes32(value.lo)

\* writeInt64: BigInt(value), then (bigValue >> 32n) & 0xFFFFFFFFn and
\* bigValue & 0xFFFFFFFFn, each stored by writeUint32
writeInt64(value) == Bytes32(HighWord(value)) \o Bytes32(value.lo)

\* writeValue(data, offset, value): the bytes it stores and the count it
\* returns; BigInt() throws a RangeError for a number that is not an integer
writeValue(tag, value) ==
    LET body ==
            CASE tag = 66 -> writeInt8(value)
              [] tag \in {83, 67} -> writeUint16(value)
              [] tag \in {73, 70} -> writeUint32(value)
              [] tag \in {74, 68} -> writeInt64(value)
              [] tag = 90 -> <<IF value.lo # 0 THEN 1 ELSE 0>>
              [] tag \in {115, 76, 91} -> writeUint64(value)
              [] OTHER -> <<>>
    IN  IF tag \in {74, 68} /\ value.frac # 0
        THEN [threw |-> TRUE, bytes |-> <<tag>>, size |-> 0]
        ELSE [threw |-> FALSE, bytes |-> <<tag>> \o body, size |-> 1 + Len(body)]

getValueSize(tag) ==
    CASE tag \in {66, 90} -> 2
      [] tag \in {83, 67} -> 3
      [] tag \in {73, 70} -> 5
      [] tag \in {74, 68, 115, 76, 91} -> 9
      [] OTHER -> 1

\* the number of bytes parseValue reads for a tag
parseValueReads(tag) ==
    CASE tag \in {66, 90} -> 2
      [] tag \in {67, 83} -> 3
      [] tag \in {73, 70} -> 5
      [] tag \in {74, 68, 115, 76, 91, 116, 103, 108, 99} -> 9
      [] OTHER -> 1

\* a new Uint8Array(n) holding the bytes written at its start
Buffer(bytes, n) == [k \in 1..n |-> IF k <= Len(bytes) THEN bytes[k] ELSE 0]

\* parsePacket(data).data and the error check handlePacket makes on a reply
\* before it resolves the command with the packet
parsePacketData(data) == Slice(data, 11, Len(data))

replyOutcome(data) ==
    LET payload == parsePacketData(data)
        errorCode == readUint16(payload, 0)
    IN  IF Len(payload) >= 2 /\ errorCode # 0
        THEN Rejected("JDWPError", errorCode)
        ELSE Resolved(payload)

\* The reply to EventRequest.Set as the peer builds it.  A JDWP peer puts the
\* error code in bytes 9 and 10 of the header and the request id behind it; a
\* peer that follows the convention of handlePacket sends the error code as
\* the first two bytes of what comes behind the 11-byte header.
SetReplyWire(in) ==
    IF in.convention = "header"
    THEN <<0, 0, 0, 15, 0, 0, 0, 1, ReplyFlag>> \o in.errorCode \o in.requestId
    ELSE <<0, 0, 0, 17, 0, 0, 0, 1, ReplyFlag, 0, 0>> \o in.errorCode \o in.requestId

RequestIdBytes ==
    {<<0, 0, 0, 1>>, <<0, 0, 0, 2>>, <<0, 0, 255, 255>>, <<0, 1, 0, 0>>, <<0, 1, 0, 2>>}

SetupEventInputs ==
    [convention : {"header", "payload"}, errorCode : {<<0, 0>>, <<0, 13>>},
     requestId : RequestIdBytes]

\* the values tried for each tag: the ends of its range and values between
ValuesOf(tag) ==
    CASE tag = 66 -> {JSNumber(0, -128), JSNumber(0, 0), JSNumber(0, 127)}
      [] tag = 67 -> {JSNumber(0, 0), JSNumber(0, 65), JSNumber(0, 65535)}
      [] tag = 83 -> {JSNumber(0, -32768), JSNumber(0, 0), JSNumber(0, 32767)}
      [] tag = 73 -> {JSNumber(0, -2147483647 - 1), JSNumber(0, 0), JSNumber(0, 2147483647)}
      [] tag \in {70, 68} -> {JSNumber(0, 0), JSNumber(0, 2), JSFraction(1, 5)}
      [] tag = 74 -> {JSBigInt(0, -1), JSBigInt(0, 5), JSBigInt(1, -2147483647 - 1),
                      JSBigInt(3, 7)}
      [] tag = 90 -> {JSBoolean(TRUE), JSBoolean(FALSE)}
      [] tag = 86 -> {JSNull}
      [] OTHER -> {JSNumber(0, 0), JSNumber(0, 1), JSNumber(3, 7),
                   JSNumber(1, -2147483647 - 1)}

Tags == {66, 67, 68, 70, 73, 74, 83, 90, 76, 91, 115, 116, 103, 108, 99, 86}

ValueInputs == UNION {{[tag |-> tag, value |-> v] : v \in ValuesOf(tag)} : tag \in Tags}

\* 8-byte ids as a VM sends them: small ones, one with the top bit of the low
\* word set, one that looks like an address, one that needs the high word,
\* and 2^53 with its successor
IdBytes ==
    {<<0, 0, 0, 0, 0, 0, 0, 1>>, <<0, 0, 0, 0, 0, 0, 0, 2>>,
     <<0, 0, 0, 0, 128, 0, 0, 0>>, <<0, 0, 0, 127, 161, 178, 195, 212>>,
     <<0, 0, 0, 1, 0, 0, 0, 1>>,
     <<0, 32, 0, 0, 0, 0, 0, 0>>, <<0, 32, 0, 0, 0, 0, 0, 1>>}

IdInputs == [a : IdBytes, b : IdBytes]

\* ----- the Composite payloads a VM sends, by the layout of the protocol
\* JDWPEventKind: every kind of the enumeration
EventKinds == {1, 2, 3, 4, 5, 6, 7, 8, 9, 10, 20, 21, 30, 40, 41, 42, 43, 44, 45, 46,
               90, 99, 100}

\* n bytes of content
Fill(n) == [i \in 1..n |-> 1]

\* a tagged value on the wire: the tag and 0 (void), 1, 2, 4 or 8 bytes
WireValue(tag) ==
    <<tag>> \o Fill(CASE tag = 86 -> 0
                      [] tag \in {66, 90} -> 1
                      [] tag \in {67, 83} -> 2
                      [] tag \in {70, 73} -> 4
                      [] OTHER -> 8)

\* what follows requestId and thread in a record of the kind: a location
\* is 25 bytes, an id 8, a tagged object id 9, a string its length in four
\* bytes and its characters
WireSuffix(kind, tag) ==
    CASE kind \in {1, 2, 3, 40, 41} -> Fill(25)
      [] kind = 42 -> Fill(25) \o WireValue(tag)
      [] kind = 4 -> Fill(25) \o Fill(9) \o Fill(25)
      [] kind \in {8, 10} -> Fill(1) \o Fill(8) \o <<0, 0, 0, 2>> \o Fill(2) \o Fill(4)
      [] kind = 9 -> <<0, 0, 0, 2>> \o Fill(2)
      [] kind = 20 -> Fill(1) \o Fill(8) \o Fill(8) \o Fill(9) \o Fill(25)
      [] kind = 21 -> Fill(1) \o Fill(8) \o Fill(8) \o Fill(9) \o Fill(25) \o WireValue(tag)
      [] kind = 30 -> Fill(25) \o Fill(1) \o Fill(8) \o Fill(8) \o Fill(8)
      [] kind \in {43, 44, 45, 46} -> Fill(1) \o Fill(8) \o Fill(25)
      [] OTHER -> <<>>

\* a record: kind, request id 3, the thread 9 unless the kind carries none
\* (VM_DEATH, VM_DISCONNECTED, USER_DEFINED), and the suffix of the kind
WireRecord(kind, tag) ==
    <<kind>> \o <<0, 0, 0, 3>>
        \o (IF kind \in {99, 100, 5} THEN <<>> ELSE <<0, 0, 0, 0, 0, 0, 0, 9>>)
        \o WireSuffix(kind, tag)

\* a THREAD_START record of request 7 and thread 9
WireThreadStart == <<6>> \o <<0, 0, 0, 7>> \o <<0, 0, 0, 0, 0, 0, 0, 9>>

\* the payload of a Composite packet of two events, suspend policy ALL
CompositePayload(kind, tag) ==
    <<2>> \o <<0, 0, 0, 2>> \o WireRecord(kind, tag) \o WireThreadStart

EventInputs ==
    UNION {{[kind |-> k, tag |-> t] : t \in IF k \in {21, 42} THEN Tags ELSE {86}} :
              k \in EventKinds}

\* getLocationSize(): typeTag + classId + methodId + index
getLocationSize == 1 + 8 + 8 + 8

getEventDataSize(eventKind, data, offset) ==
    CASE eventKind \in {1, 2} -> getLocationSize
      [] eventKind = 3 -> getLocationSize
      [] eventKind = 4 -> getLocationSize + 8 + getLocationSize
      [] eventKind = 5 -> 0
      [] eventKind \in {6, 7} -> 0
      [] eventKind = 8 -> 1 + 8 + 4 + readUint32(data, offset + 9) + 4
      [] eventKind = 9 -> 4 + readUint32(data, offset)
      [] eventKind = 10 -> 1 + 8 + 4 + readUint32(data, offset + 9) + 4
      [] eventKind \in {20, 21} -> 1 + 8 + 8 + 8 + getLocationSize
      [] eventKind = 30 -> getLocationSize + 1 + 8 + 8 + 8
      [] eventKind \in {40, 41} -> getLocationSize
      [] eventKind = 42 ->
            getLocationSize + getValueSize(readUint8(data, offset + getLocationSize))
      [] eventKind \in {43, 44, 45, 46} -> 1 + 8 + getLocationSize
      [] eventKind = 90 -> 0
      [] eventKind \in {99, 100} -> 0
      [] OTHER -> 0

\* one pass of the loop of parseCompositeEvent from `offset`: the event it
\* makes and the offset it leaves
parseEvent(data, offset) ==
    LET eventKind == readUint8(data, offset)
        requestId == readUint32(data, offset + 1)
        threadId == readObjectId(data, offset + 5)
        o == offset + 1 + 4 + 8
    IN  [event |-> [eventKind |-> eventKind, requestId |-> requestId,
                    threadId |-> threadId],
         offset |->
            CASE eventKind \in {2, 1} -> o + getLocationSize
              [] eventKind = 8 -> o + 1 + 8 + 4 + readUint32(data, o + 9) + 4
              [] OTHER -> o + getEventDataSize(eventKind, data, o)]

RECURSIVE parseEvents(_, _, _)
parseEvents(data, offset, n) ==
    IF n <= 0 THEN <<>>
    ELSE LET e == parseEvent(data, offset)
         IN  <<[event |-> e.event, from |-> offset, to |-> e.offset]>>
                 \o parseEvents(data, e.offset, n - 1)

\* parseCompositeEvent(data): the events, each with the offsets at which its
\* decoding began and ended
parseCompositeEvent(data) == parseEvents(data, 1 + 4, readUint32(data, 1))

CodecInputs ==
    {[op |-> "setupEvent", pc |-> "in", in |-> i, out |-> <<>>] : i \in SetupEventInputs}
    \cup {[op |-> "value", pc |-> "in", in |-> i, out |-> <<>>] : i \in ValueInputs}
    \cup {[op |-> "id", pc |-> "in", in |-> i, out |-> <<>>] : i \in IdInputs}
    \cup {[op |-> "event", pc |-> "in", in |-> i, out |-> <<>>] : i \in EventInputs}

InitCodec ==
    /\ InitClient
    /\ transportKind = "webusb"
    /\ connectPc = "new"
    /\ wire = <<>>
    /\ inbound = <<>>
    /\ pendingData = <<>>
    /\ delivered = <<>>
    /\ written = <<>>
    /\ invalidLength = FALSE
    /\ codec \in CodecInputs
    /\ attach = NoAttach

restVars == <<clientVars, socket, reader, writer, connected, packetCallback, tvars,
             attach>>

\* setupEvent after `await this.sendCommand(15, 1, data)`: the reply went
\* through parsePacket and handlePacket; a resolved one gives
\* readUint32(response.data, 0)
SetupEventReply ==
    /\ codec.op = "setupEvent"
    /\ codec.pc = "in"
    /\ LET res == replyOutcome(SetReplyWire(codec.in))
       IN  codec' = [codec EXCEPT !.pc = "out",
                                  !.out = [ok |-> res.ok, code |-> res.code,
                                           requestId |-> IF res.ok
                                                         THEN readUint32(res.data, 0)
                                                         ELSE 0]]
    /\ UNCHANGED restVars

\* writeValue into a new buffer of 9 bytes (one argument of invokeMethod), then
\* parseValue of that buffer
ValueRoundTrip ==
    /\ codec.op = "value"
    /\ codec.pc = "in"
    /\ LET w == writeValue(codec.in.tag, codec.in.value)
           data == Buffer(w.bytes, 9)
       IN  codec' = [codec EXCEPT !.pc = "out",
                                  !.out = [threw |-> w.threw, written |-> w.size,
                                           data |-> data,
                                           decoded |-> parseValue(data, 0),
                                           size |-> getValueSize(codec.in.tag),
                                           reads |-> parseValueReads(codec.in.tag)]]
    /\ UNCHANGED restVars

\* Two ids are read from replies (readObjectId, readMethodId, ...); the first
\* is written back as an 8-byte id (writeObjectId, writeMethodId, ...) and as
\* the payload of resumeThread.
IdRoundTrip ==
    /\ codec.op = "id"
    /\ codec.pc = "in"
    /\ LET a == readObjectId(codec.in.a, 0)
           b == readObjectId(codec.in.b, 0)
       IN  codec' = [codec EXCEPT !.pc = "out",
                                  !.out = [a |-> a, b |-> b,
                                           rewritten |-> writeUint64(a),
                                           resume |-> writeUint32(a)]]
    /\ UNCHANGED restVars

\* handleEventPacket hands the payload of a Composite packet to
\* parseCompositeEvent
CompositeDecode ==
    /\ codec.op = "event"
    /\ codec.pc = "in"
    /\ codec' = [codec EXCEPT
                    !.pc = "out",
                    !.out = [events |-> parseCompositeEvent(
                                            CompositePayload(codec.in.kind, codec.in.tag)),
                             first |-> Len(WireRecord(codec.in.kind, codec.in.tag))]]
    /\ UNCHANGED restVars

NextCodec ==
    \/ SetupEventReply
    \/ ValueRoundTrip
    \/ IdRoundTrip
    \/ CompositeDecode

SpecCodec == InitCodec /\ [][NextCodec]_vars

\* ------------------------------------------------------------------ claims
\* number of entries of the dispatch log d that are BREAKPOINT events tagged
\* with request id r
HitsIn(d, r) ==
    Cardinality({i \in 1..Len(d) :
                    d[i].ev.eventKind = BREAKPOINT /\ d[i].ev.requestId = r})

hitCountOf(b, r) ==
    LET idx == {i \in 1..Len(b) : b[i].requestId = r}
    IN  b[CHOOSE i \in idx : TRUE].hitCount

\* Nothing is left for the program to do on its own: no continuation is
\* queued, no timer is armed, no connect or stream close is in progress.
Quiescent ==
    /\ ready = <<>>
    /\ timers = <<>>
    /\ \A i \in Slots : tasks[i].pc \notin {"connect", "tdCancel", "tdClose", "tdSock"}

\* C1: every event of a Composite packet goes to the callback registered for
\* its request id; when there is none, to the callback registered for id 0;
\* it is dropped only when neither is registered.
C1_WildcardFallback ==
    \A i \in 1..Len(lastDispatch) :
        LET d == lastDispatch[i]
            r == d.ev.requestId
        IN  d.key = IF r \in d.keys THEN r ELSE IF 0 \in d.keys THEN 0 ELSE -1

\* C2: a reply whose id has a pending entry removes that entry and settles
\* that command: rejected with JDWPError(code, id) when the first two payload
\* bytes are a non-zero big-endian code, resolved with the payload otherwise
\* (a payload shorter than two bytes is a success).
C2_ReplySettles ==
    lastReply.matched =>
        LET d == lastReply.data
            code == IF Len(d) >= 2 THEN d[1] * 256 + d[2] ELSE 0
        IN  /\ lastReply.id \notin DOMAIN responseHandlers
            /\ lastReply.id \notin unsettled
            /\ lastSettled.id = lastReply.id
            /\ IF code # 0
               THEN /\ ~lastSettled.ok
                    /\ lastSettled.err = "JDWPError"
                    /\ lastSettled.code = code
               ELSE lastSettled.ok /\ lastSettled.data = d

\* a reply carrying an error code is matched and rejects its command
C2_Witness ==
    /\ lastReply.matched
    /\ lastReply.data = P_ErrHigh
    /\ lastSettled.err = "JDWPError"

\* what a timer that fires, and a reply that matches no entry, may do
TimeoutStep ==
    /\ lastTimer' # 0 =>
          /\ responseHandlers' = MapRemove(responseHandlers, lastTimer')
          /\ unsettled' = unsettled \ {lastTimer'}
          /\ IF lastTimer' \in unsettled
             THEN /\ lastSettled'.id = lastTimer'
                  /\ ~lastSettled'.ok
                  /\ lastSettled'.err = "timeout"
             ELSE lastSettled' = NoSettle
    /\ (lastReply'.id # 0 /\ ~lastReply'.matched) =>
          /\ responseHandlers' = responseHandlers
          /\ unsettled' = unsettled
          /\ lastSettled' = NoSettle
          /\ tasks' = tasks

\* the timer of a command stays armed as long as the command is not settled
\* (JDWPClient.disconnect, which ends all commands, excepted)
TimerKeptStep ==
    \A k \in 1..Len(timers) :
        (timers[k].id \in unsettled' /\ ~lastDisconnect')
            => \E j \in 1..Len(timers') : timers'[j] = timers[k]

\* C3: a command that gets no reply is rejected by its timer: the timer stays
\* armed until the command is settled, and when it fires it rejects its own
\* command with the timeout error and removes exactly that command's entry;
\* no other command is removed or settled; a reply that matches no entry
\* changes neither the table nor any promise.
C3_Timeout ==
    [][TimeoutStep /\ TimerKeptStep]_vars

\* C4: when JDWPClient.disconnect has run, every promise that was pending is
\* rejected: none is left unsettled.
C4_DisconnectRejectsAll ==
    lastDisconnect => unsettled = {}

\* C5: when the read loop has seen the end of the stream, every pending
\* promise is rejected.
C5_EofRejectsAll ==
    lastEof => unsettled = {}

\* C6: once the VM has reported VM_DEATH and the program has nothing left to
\* do, the session is removed from the manager, the transport is disconnected
\* and no promise is pending.
C6_VmDeathEndsSession ==
    (vmDead /\ Quiescent) =>
        /\ ThePid \notin sessions
        /\ ~connected
        /\ unsettled = {}

\* C7: after a BREAKPOINT event for a breakpoint of the session's registry
\* has been dispatched, its thread is in suspendedThreads.
C7_BreakpointSuspendsThread ==
    \A i \in 1..Len(lastDispatch) :
        LET ev == lastDispatch[i].ev
        IN  (ev.eventKind = BREAKPOINT /\ ThePid \in sessions
             /\ BpHas(breakpoints, ev.requestId))
                => SeqHas(suspendedThreads, ev.threadId)

\* C8: the hitCount of a breakpoint grows by exactly the number of BREAKPOINT
\* events for its request id that a step dispatches.
C8_HitCountExact ==
    [][\A r \in RequestIds :
          (ThePid \in sessions' /\ BpHas(breakpoints, r) /\ BpHas(breakpoints', r))
              => hitCountOf(breakpoints', r)
                     = hitCountOf(breakpoints, r) + HitsIn(lastDispatch', r)]_vars

\* C9: a facade call that fails leaves breakpoints and suspendedThreads as
\* they were, and breakpoints changes only in the step in which setBreakpoint,
\* removeBreakpoint or clearAllBreakpoints continues after its wire call
\* succeeded.
C9_RegistryAfterSuccess ==
    [][/\ (lastResult'.op \in {"setBreakpoint", "removeBreakpoint",
                               "clearAllBreakpoints", "suspendThread", "resumeThread"}
           /\ ~lastResult'.ok)
            => (breakpoints' = breakpoints /\ suspendedThreads' = suspendedThreads)
       /\ breakpoints' # breakpoints =>
            /\ ready # <<>>
            /\ Head(ready).kind = "task"
            /\ tasks[Head(ready).slot].pc \in {"set", "remove", "clearAll"}
            /\ tasks[Head(ready).slot].res.ok
            /\ lastResult'.ok]_vars

\* removeBreakpoint failed on the wire and the breakpoint is still registered
C9_Witness ==
    /\ lastResult.op = "removeBreakpoint"
    /\ ~lastResult.ok
    /\ BpHas(breakpoints, 1)

\* what a step may do to the attach while the pid has a session
SecondStartStep ==
    ThePid \in sessions =>
        /\ \A i \in Slots : tasks'[i].op = "start" => tasks[i].op = "start"
        /\ (ready = <<>> /\ lastResult'.op = "start") =>
              (/\ ~lastResult'.ok
               /\ UNCHANGED <<sessions, breakpoints, threads, suspendedThreads,
                              currentThread, transportMade, connected, reader, writer,
                              socket, packetCallback, packetIdCounter, responseHandlers,
                              eventCallbacks, unsettled, timers, nextTimerId, tasks,
                              ready>>
               /\ lastSent' = NoSent)

\* C10: while the pid has a session no attach begins (no startDebugging
\* task appears), and a call of startDebugging (a step taken with no
\* continuation queued) is rejected and changes nothing: the session and its
\* registries stay, no transport is made, no command is sent.
C10_SecondStartRejected ==
    [][SecondStartStep]_vars

\* startDebugging was rejected while the session existed
C10_Witness ==
    /\ lastResult.op = "start"
    /\ ~lastResult.ok
    /\ ThePid \in sessions
    /\ transportMade

\* what the step that ends `await client.connect()` may do
ConnectStep ==
    /\ (ThePid \notin sessions /\ ThePid \in sessions')
          => (connected' /\ packetCallback')
    /\ \A i \in Slots :
          (tasks[i].pc = "connect" /\ tasks'[i].pc # "connect" /\ ~connected')
              => /\ ThePid \notin sessions'
                 /\ lastResult'.op = "start"
                 /\ ~lastResult'.ok

\* C11: a session enters the session table only in a step after which its
\* transport is connected and its packet callback is registered; when the
\* transport could not be opened, startDebugging is rejected in that step and
\* the pid has no session.
C11_SessionOnlyWhenConnected ==
    [][ConnectStep]_vars

\* a stopDebugging that has left its two loops
PastLoops(t) == t.op = "stop" /\ t.pc \notin {"stopClear", "stopResume"}

C13_StopIdempotent ==
    (/\ lastResult.op = "stop"
     /\ transportMade
     /\ ThePid \notin sessions
     /\ \A i \in Slots : tasks[i].pc # "connect")
        => lastResult.ok

\* the packets of a byte stream, by the definition of the protocol: each
\* packet begins with its length
RECURSIVE WireFrames(_)
WireFrames(w) ==
    IF Len(w) < MinPacketLen THEN <<>>
    ELSE LET length == readUint32BE(w, 0)
         IN  IF length < MinPacketLen \/ Len(w) < length THEN <<>>
             ELSE <<Slice(w, 0, length)>> \o WireFrames(Slice(w, length, Len(w)))

\* the stream after the handshake, all of it and the part read so far
AfterHandshake(w) ==
    IF transportKind = "webusb" THEN Slice(w, Len(Handshake), Len(w)) ELSE w

RECURSIVE TotalLen(_)
TotalLen(f) == IF f = <<>> THEN 0 ELSE Len(Head(f)) + TotalLen(Tail(f))

\* the stream is a sequence of whole packets
WellFormed(w) == TotalLen(WireFrames(w)) = Len(w)

\* what a read of the read loop does to a stream of whole packets
ReadStep ==
    (/\ connectPc \in {"started", "attached"}
     /\ inbound' # inbound
     /\ WellFormed(AfterHandshake(wire)))
        => delivered' = WireFrames(AfterHandshake(received'))

\* C14: however the inbound stream after the handshake is split into reads,
\* after every read of the read loop the packets handed to the packet
\* callback are the complete packets of the bytes read so far, each once,
\* with its own bytes, in stream order: a packet split over reads is handed
\* over when it is complete, and no byte is lost or duplicated.
C14_FramingExact ==
    [][ReadStep]_vars

\* the handshake was written first and the 14 bytes of the reply were read
\* and are the handshake
HandshakeVerified ==
    /\ written # <<>>
    /\ written[1] = Handshake
    /\ Slice(received, 0, Len(Handshake)) = Handshake

\* C15: on both transports, when connect() has resolved (the read loop is
\* framing, the packet callback can be registered) and when a command has
\* been written, the 14-byte handshake was written first and its 14-byte
\* reply was read and verified.
C15_HandshakeFirst ==
    /\ connectPc \in {"started", "read", "attached"} => HandshakeVerified
    /\ (\E i \in 1..Len(written) : written[i] = PktCommand) => HandshakeVerified

\* what follows a declared length below 11
InvalidLengthStep ==
    /\ invalidLength' => ~connected'
    /\ invalidLength => (delivered' = delivered /\ written' = written)

\* C16: once the framing loop has read a declared length below 11 the
\* transport is disconnected, no further packet is handed to the packet
\* callback and no further write is accepted.
C16_InvalidLengthCloses ==
    [][InvalidLengthStep]_vars

\* the events of the dispatch log d
DispatchedEvents(d) == [i \in 1..Len(d) |-> d[i].ev]

\* C17: a step handles one packet: the callbacks of the events of a Composite
\* packet are invoked within the step that reads it, before any later packet
\* is read, and in the order of the events in the packet (the events
\* dispatched are an initial part of the packet's events, in wire order).
C17_WireOrder ==
    /\ Len(lastDispatch) <= Len(lastPacket)
    /\ DispatchedEvents(lastDispatch) = SubSeq(lastPacket, 1, Len(lastDispatch))

\* a packet of two different events was dispatched to its end
C17_Witness ==
    /\ Len(lastDispatch) = 2
    /\ lastDispatch[1].ev # lastDispatch[2].ev
    /\ lastDispatch[1].key # -1
    /\ lastDispatch[2].key # -1

\* C18: a callback that throws does not keep the remaining events of the
\* same Composite packet from their callbacks: every event of the packet is
\* dispatched.
C18_ThrowIsolated ==
    Len(lastDispatch) = Len(lastPacket)

\* C19: the packet id counter starts at 1 and a command takes the value of
\* the counter and advances it: the command sent last has the id just below
\* the counter, every pending id is at least 1 and below the counter, and no
\* two commands that wait for a reply wait for the same id.
C19_PacketIdsUnique ==
    /\ packetIdCounter >= 1
    /\ \A id \in (DOMAIN responseHandlers) \cup unsettled :
          id >= 1 /\ id < packetIdCounter
    /\ lastSent.id # 0 => lastSent.id = packetIdCounter - 1
    /\ \A i, j \in Slots :
          (i # j /\ tasks[i].wait # 0) => tasks[i].wait # tasks[j].wait

\* two commands are pending at once
C19_Witness ==
    /\ Cardinality(DOMAIN responseHandlers) = 2
    /\ \E i, j \in Slots : tasks[i].wait # 0 /\ tasks[j].wait # 0 /\ i # j

\* what a step may do to the promises of the commands
SettleOnceStep ==
    /\ \A id \in unsettled' \ unsettled : id >= packetIdCounter
    /\ lastSettled'.id # 0 =>
          /\ lastSettled'.id \notin unsettled'
          /\ lastSettled'.id \in unsettled \/ lastSettled'.id >= packetIdCounter
    /\ (lastSettled'.id # 0 /\ lastSettled'.ok) =>
          /\ lastReply'.matched
          /\ lastReply'.id = lastSettled'.id
          /\ lastSettled'.id \in DOMAIN responseHandlers
    /\ lastReply'.id # 0 =>
          /\ unsettled \ unsettled' \subseteq {lastReply'.id}
          /\ DOMAIN responseHandlers' = (DOMAIN responseHandlers) \ {lastReply'.id}
    /\ (lastReply'.id # 0 /\ ~lastReply'.matched) =>
          /\ unsettled' = unsettled
          /\ lastSettled' = NoSettle
          /\ \A i \in Slots : tasks'[i] = tasks[i]

\* C20: a promise of sendCommand is settled at most once (a settled promise
\* is never pending again); it is resolved only in the step that reads a
\* reply with its id while its entry is in the pending table; a reply
\* settles no command but the one with its id; a reply whose id has no
\* entry changes neither the table nor any promise nor any waiting call.
C20_SettledOnce ==
    [][SettleOnceStep]_vars

\* a reply whose id has no entry arrives while a command is pending
C20_Witness ==
    /\ lastReply.id # 0
    /\ ~lastReply.matched
    /\ unsettled # {}
    /\ responseHandlers # EmptyMap

\* what a step may do while the transport is not connected
DisconnectedStep ==
    (~connected /\ ~connected') =>
        /\ packetIdCounter' = packetIdCounter
        /\ DOMAIN responseHandlers' \subseteq DOMAIN responseHandlers
        /\ unsettled' \subseteq unsettled
        /\ nextTimerId' = nextTimerId
        /\ Len(timers') <= Len(timers)
        /\ lastSent' = NoSent
        /\ \A i \in Slots : tasks'[i].wait # 0 => tasks'[i].wait = tasks[i].wait

\* C21: while the transport is not connected a sendCommand call is rejected
\* (the caller does not wait for a reply), and the step takes no packet id,
\* adds no entry to the pending table, arms no timer and writes nothing.
C21_NoSendWhenDisconnected ==
    [][DisconnectedStep]_vars

\* a facade call made after the end of the stream had its sendCommand
\* rejected
C21_Witness ==
    /\ ~connected
    /\ ThePid \in sessions
    /\ \E i \in Slots :
          /\ tasks[i].op \in {"setBreakpoint", "removeBreakpoint", "resumeThread"}
          /\ tasks[i].res.err = "notConnected"

\* C30: when the reply that matches a pending command has been handled, no
\* timer of that packet id is armed any more.
C30_ReplyCancelsTimer ==
    lastReply.matched =>
        \A k \in 1..Len(timers) : timers[k].id # lastReply.id

\* C29: an event tagged with the request id of a breakpoint that the session
\* has set, arriving while no callback is registered for that id and one is
\* registered for id 0, is handed to the callback of id 0.
C29_EarlyEventToWildcard ==
    \A i \in 1..Len(lastDispatch) :
        LET d == lastDispatch[i]
        IN  (/\ BpHas(breakpoints, d.ev.requestId)
             /\ d.ev.requestId \notin d.keys
             /\ 0 \in d.keys)
                => d.key = 0

\* C28: the streams of the transport are closed once: at no time are two
\* calls of transport.disconnect() waiting for the same stream to close, and
\* a call waits for a stream only while the transport still holds it.
C28_ClosedOnce ==
    /\ \A pc \in {"tdCancel", "tdClose", "tdSock"} :
          Cardinality({i \in Slots : tasks[i].pc = pc}) <= 1
    /\ \A i \in Slots :
          /\ tasks[i].pc = "tdCancel" => reader
          /\ tasks[i].pc = "tdClose" => writer
          /\ tasks[i].pc = "tdSock" => socket

\* The commands the specification lists for exec, as <<command set, command>>:
\* ClassesBySignature, Methods, ClassType.InvokeMethod, CreateString,
\* ObjectReference.InvokeMethod, ClassesBySignature, Methods,
\* ObjectReference.InvokeMethod.
ExecCommands ==
    <<<<1, 2>>, <<2, 5>>, <<3, 3>>, <<1, 11>>, <<9, 6>>, <<1, 2>>, <<2, 5>>, <<9, 6>>>>

IsPrefixOf(a, b) == Len(a) <= Len(b) /\ \A k \in 1..Len(a) : a[k] = b[k]

\* The reply read in this turn settled the command the function of slot i
\* was waiting on.
ReplyWasFor(i) ==
    /\ lastReply.matched
    /\ lastSettled.id = lastReply.id
    /\ tasks[i].wait = 0
    /\ ready # <<>>
    /\ ready[Len(ready)] = TaskItem(i)

\* C22: the commands exec has issued are, in order, the first ones of the
\* listed sequence, and a reply to an invocation that carries a tagged object
\* id is a success, on which exec goes on.
C22_ExecSequence ==
    \A i \in Slots :
        tasks[i].op = "executeJDWP" =>
            LET t == tasks[i]
                sent == [k \in 1..Len(t.sent) |-> <<t.sent[k][1], t.sent[k][2]>>]
            IN  /\ IsPrefixOf(sent, ExecCommands)
                /\ (/\ t.pc \in {"xGetRuntime", "xExec"}
                    /\ ReplyWasFor(i)
                    /\ lastReply.data = P_Object) => t.res.ok

\* The result exec is about to look at does not have the tag it expects.
UnexpectedTag(t) ==
    /\ t.op = "executeJDWP"
    /\ t.res.ok
    /\ LET result == parseValue(t.res.data, 0)
       IN  CASE t.pc = "xGetRuntime" ->
                    result.tag # TAG_OBJECT \/ result.value = JSNumber(0, 0)
             [] t.pc = "xExec" -> result.tag # TAG_OBJECT
             [] t.pc = "xWaitFor" -> result.tag # TAG_INT
             [] OTHER -> FALSE

TagStep ==
    (/\ ready # <<>>
     /\ Head(ready).kind = "task"
     /\ UnexpectedTag(tasks[Head(ready).slot]))
        => /\ lastResult' = [op |-> "executeJDWP", by |-> "user", ok |-> FALSE]
           /\ lastSent' = NoSent
           /\ packetIdCounter' = packetIdCounter
           /\ responseHandlers' = responseHandlers
           /\ tasks'[Head(ready).slot] = NoTask

\* C23: when exec continues with a result whose tag is not the expected one
\* (the getRuntime result not a non-zero OBJECT, the exec result not an
\* OBJECT, the waitFor result not an INT), the call fails and no command is
\* sent.
C23_UnexpectedTagRejects == [][TagStep]_vars

\* exec is about to continue with a successful reply whose tag is unexpected
C23_Witness ==
    /\ ready # <<>>
    /\ Head(ready).kind = "task"
    /\ UnexpectedTag(tasks[Head(ready).slot])

\* C24: the thread executeJDWP chooses when the caller gave none is one of
\* the session's suspended threads.
C24_ExecOnSuspendedThread ==
    \A i \in Slots :
        (/\ tasks[i].op = "executeJDWP"
         /\ tasks[i].given = 0
         /\ tasks[i].pc \in ExecPcs)
            => SeqHas(suspendedThreads, tasks[i].arg)

\* C25: a successful reply to EventRequest.Set makes setupEvent return the
\* request id the VM put in it, whether the peer sends the error code in the
\* header or, as handlePacket reads it, in front of the payload; an event
\* tagged with that id then finds the callback registered under the returned
\* value.
C25_SetupEventReturnsRequestId ==
    (codec.op = "setupEvent" /\ codec.pc = "out" /\ codec.in.errorCode = <<0, 0>>)
        => /\ codec.out.ok
           /\ codec.out.requestId = readUint32(codec.in.requestId, 0)

\* C26: writeValue followed by parseValue gives back the tag and the value,
\* and writeValue stores as many bytes as parseValue reads and getValueSize
\* reports for the tag.
C26_ValueRoundTrip ==
    (codec.op = "value" /\ codec.pc = "out")
        => /\ ~codec.out.threw
           /\ codec.out.decoded = [tag |-> codec.in.tag, value |-> codec.in.value]
           /\ codec.out.written = codec.out.reads
           /\ codec.out.written = codec.out.size

\* C27: an id received from the VM is written back with the same 8 bytes by
\* every command that carries it, resumeThread included, and two ids that
\* differ are different values for the program.
C27_IdsOpaque ==
    (codec.op = "id" /\ codec.pc = "out")
        => /\ codec.out.rewritten = codec.in.a
           /\ codec.out.resume = codec.in.a
           /\ (codec.in.a # codec.in.b => codec.out.a # codec.out.b)

\* C33: the id-0 subscriber is registered when the ThreadStart request of the
\* attach is issued, and it is registered when startDebugging returns,
\* whatever became of that request.
C33_WildcardRegisteredAtAttach ==
    /\ (/\ lastSent.commandSet = CS_EventRequest
        /\ lastSent.command = 1
        /\ lastSent.arg = THREAD_START) => 0 \in DOMAIN eventCallbacks
    /\ (lastResult.op = "start" /\ lastResult.ok) => 0 \in DOMAIN eventCallbacks

\* C34: a THREAD_START event tagged with the id the VM returned for the
\* ThreadStart request of the attach is handed to the VM-event handler (the
\* callback under key 0), and after a THREAD_DEATH event was handled its
\* thread is in neither threads nor suspendedThreads.
C34_ThreadEventsHandled ==
    \A i \in 1..Len(lastDispatch) :
        LET d == lastDispatch[i]
        IN  /\ (/\ d.ev.eventKind = THREAD_START
                /\ d.ev.requestId \in RequestIds
                /\ 0 \in d.keys) => d.key = 0
            /\ (d.ev.eventKind = THREAD_DEATH /\ d.key = 0 /\ ~vmDead)
                    => /\ d.ev.threadId \notin threads
                       /\ ~SeqHas(suspendedThreads, d.ev.threadId)
\* C40: suspendedThreads holds exactly the threads that the debugger keeps
\* suspended: a thread stopped by a BREAKPOINT event of one of the session's
\* breakpoints is in it, and once DebugManager.resume has succeeded it is
\* empty.
C40_SuspendedThreadsExact ==
    /\ \A i \in 1..Len(lastDispatch) :
          LET ev == lastDispatch[i].ev
          IN  (/\ ev.eventKind = BREAKPOINT
               /\ ThePid \in sessions
               /\ BpHas(breakpoints, ev.requestId))
                  => SeqHas(suspendedThreads, ev.threadId)
    /\ (lastResult.op = "resume" /\ lastResult.ok) => suspendedThreads = <<>>

\* the buffer holds a whole packet
HoldsPacket(buf) == WireFrames(buf) # <<>>

\* what a read of the read loop leaves in the reassembly buffer
BufferAfterRead ==
    (connectPc \in {"started", "attached"} /\ inbound' # inbound)
        => /\ ~HoldsPacket(pendingData')
           /\ \/ pendingData' = <<>>
              \/ Len(pendingData') < MinPacketLen
              \/ Len(pendingData') < readUint32BE(pendingData', 0)

\* C32: when a read of the read loop has been processed the reassembly
\* buffer is empty or a strict prefix of the next packet (shorter than the
\* 11-byte header, or shorter than the declared length): it holds no whole
\* packet that was not handed to the packet callback.
C32_BufferHoldsNoPacket ==
    [][BufferAfterRead]_vars

\* what a read does while no packet callback is registered
EarlyReadStep ==
    (connectPc = "started" /\ ~packetCallback /\ inbound' # inbound)
        => pendingData' = pendingData \o SubSeq(inbound, 1, Len(inbound) - Len(inbound'))

\* C36: the bytes of a read that returns between the end of
\* transport.connect() and onPacket(), while no packet callback is
\* registered, are appended to the reassembly buffer.
C36_EarlyBytesKept ==
    [][EarlyReadStep]_vars

\* what the end of the handshake leaves in the reassembly buffer
HandshakeRestStep ==
    (connectPc = "handshake" /\ connectPc' = "started")
        => pendingData' = Slice(received', Len(Handshake), Len(received'))

\* C37: the bytes that came in the same chunk as the handshake reply beyond
\* its 14th byte are in the reassembly buffer when connect() goes on, and a
\* whole packet in the buffer is eventually handed to the packet callback,
\* also when the VM sends nothing more.
C37_HandshakeRestDelivered ==
    /\ [][HandshakeRestStep]_vars
    /\ HoldsPacket(pendingData) ~> ~HoldsPacket(pendingData)

\* C39: when connect() has rejected, because the socket could not be opened
\* or because the handshake failed, the transport is not connected:
\* isConnected() is false and sendPacket rejects.
C39_FailedConnectNotConnected ==
    connectPc = "failed" => (~connected /\ sendPacketFails(Cur))

\* C38: however the calls of startDebugging for one pid interleave, at most
\* one of them opens a transport and at most one stores a session in the
\* registry; a session that is stored is not replaced.
C38_OneAttachPerPid ==
    /\ Cardinality(attach.opened) <= 1
    /\ Len(attach.created) <= 1

\* C35: the promise of every command is eventually settled, whatever
\* replies arrive, whether the write fails, the stream ends or the client
\* disconnects, on a host whose armed timers eventually fire.  The user
\* makes finitely many calls and a call sends finitely many commands, so
\* this is: from some point on no promise is pending.
C35_EveryCommandSettles ==
    <>[](unsettled = {})

\* C31: for every event kind, and for every value tag where the record
\* holds a tagged value, the decoder leaves the first record of a Composite
\* payload at the offset where the record ends on the wire, and so decodes
\* the record that follows from its first byte.
C31_DecoderAdvancesExactly ==
    (codec.op = "event" /\ codec.pc = "out")
        => /\ Len(codec.out.events) = 2
           /\ codec.out.events[1].from = 5
           /\ codec.out.events[1].to = 5 + codec.out.first
           /\ codec.out.events[2].event.eventKind = THREAD_START
           /\ codec.out.events[2].event.requestId = 7

====
